---- MODULE Spec2Model ----
(***************************************************************************)
(* Alert evaluation engine of the stock watchlist bot (src/alerts.py):     *)
(* the evaluators check_price_alerts, check_technical_alerts and           *)
(* check_portfolio_alerts, the renderers format_alert_message and          *)
(* get_alert_summary, the deduplication filter filter_duplicate_alerts     *)
(* with its bounded alert_history, and the monitoring tick that drives     *)
(* them on the event loop (src/main.py, src/telegram_bot.py).              *)
(*                                                                         *)
(* Time is counted in minutes.  Ticker symbols are numbered (1, 2, ...).   *)
(* Prices are whole currency units; a trigger_price is held in hundredths  *)
(* of a unit so that the 0.95 and 1.05 buffers stay exact.                 *)
(***************************************************************************)
EXTENDS Integers, Sequences, FiniteSets

VARIABLES
    alert_history,    \* AlertManager.alert_history
    cooldown_period,  \* AlertManager.cooldown_period, in minutes
    now,              \* the wall clock datetime.now() reads, in minutes
    calls,            \* every completed filter_duplicate_alerts call: its time,
                      \*   input and result, alert_history before it, and how
                      \*   many of its candidates were fillers:
                      \*   [at, new_alerts, filtered_alerts, before, bulk]
    stock_data,       \* the record handed to check_price_alerts
    price_result,     \* what check_price_alerts returned for stock_data
    indicators,       \* the snapshot handed to check_technical_alerts
    tech_result,      \* what check_technical_alerts returned for indicators
    stocks_data,      \* the list handed to check_portfolio_alerts
    portfolio_result, \* what check_portfolio_alerts returned for stocks_data
    summary_input,    \* the list handed to get_alert_summary
    summary_result,   \* what get_alert_summary did with summary_input
    ticks,            \* each monitor_stocks coroutine: its position and locals
    running,          \* the task that holds the event loop, 0 when it is free
    sent,             \* the messages Telegram accepted
    chat_id,          \* whether config.CHAT_ID is set
    other_jobs,       \* how many other jobs or command handlers have run
    worksheet,        \* GoogleSheetsManager.worksheet: the rows below the header
    reply,            \* the last chat command answered, with the answer:
                      \*   [command, request, kind, symbol, lines]
    bot_alert_history, \* TelegramBot.alert_manager.alert_history
    scheduler         \* StockWatchlistBot.scheduler: [jobs, running, next_run, runs]

vars == <<alert_history, cooldown_period, now, calls, stock_data, price_result,
          indicators, tech_result, stocks_data, portfolio_result,
          summary_input, summary_result, ticks, running, sent, chat_id, other_jobs,
          worksheet, reply, bot_alert_history, scheduler>>

dedupVars == <<alert_history, cooldown_period, now, calls>>
priceVars == <<stock_data, price_result>>
techVars == <<indicators, tech_result>>
portfolioVars == <<stocks_data, portfolio_result>>
summaryVars == <<summary_input, summary_result>>
evalVars == <<priceVars, techVars, portfolioVars, summaryVars>>
loopVars == <<ticks, running, sent, chat_id, other_jobs>>
botVars == <<worksheet, reply, bot_alert_history, scheduler>>

----------------------------------------------------------------------------
\* Program constants

\* timedelta(hours=1), in minutes
CooldownMinutes == 60

\* self.alert_history[-100:]
HistoryKeep == 100

\* the factor 100 that turns a price into hundredths
Scale == 100

\* target_price * 0.95 and stop_loss * 1.05, in hundredths
TargetBufferPct == 95
StopBufferPct == 105

----------------------------------------------------------------------------
\* Bounds of the model

\* Spec: candidates offered over a whole run, and clock steps
MaxCandidates == 3
MaxTime == 3

\* SpecBulk (runs with one large batch): candidates chosen one by one over a
\* whole run, and clock steps
MaxBulkCandidates == 2
MaxBulkTime == 2

----------------------------------------------------------------------------
\* AlertType (the enum values)

TARGET_HIT == "target_hit"
STOP_LOSS == "stop_loss"
TECHNICAL_BUY == "technical_buy"
TECHNICAL_SELL == "technical_sell"

\* an alert dictionary
Alert(type, symbol, message, current_price, trigger_price, timestamp, priority) ==
    [type |-> type, symbol |-> symbol, message |-> message,
     current_price |-> current_price, trigger_price |-> trigger_price,
     timestamp |-> timestamp, priority |-> priority]

----------------------------------------------------------------------------
\* filter_duplicate_alerts

\* IsDuplicate without the cooldown test: a key once in history always matches
IsDuplicateNoExpiry(alert, history, current_time, cooldown) ==
    \E j \in 1..Len(history) :
        /\ history[j].symbol = alert.symbol
        /\ history[j].type = alert.type

\* IsDuplicate on the symbol alone
IsDuplicateAnyType(alert, history, current_time, cooldown) ==
    \E j \in 1..Len(history) :
        /\ history[j].symbol = alert.symbol
        /\ current_time - history[j].timestamp < cooldown

\* IsDuplicate with the message as a part of the key
IsDuplicateSameMessage(alert, history, current_time, cooldown) ==
    \E j \in 1..Len(history) :
        /\ history[j].symbol = alert.symbol
        /\ history[j].type = alert.type
        /\ history[j].message = alert.message
        /\ current_time - history[j].timestamp < cooldown

\* the inner scan: some historical alert has the candidate's symbol and type
\* and current_time - timestamp < cooldown_period
IsDuplicate(alert, history, current_time, cooldown) ==
    \E j \in 1..Len(history) :
        /\ history[j].symbol = alert.symbol
        /\ history[j].type = alert.type
        /\ current_time - history[j].timestamp < cooldown

\* KeepLast as self.alert_history[:100]: the oldest 100 are kept
KeepFirst(history) ==
    IF Len(history) > HistoryKeep THEN SubSeq(history, 1, HistoryKeep) ELSE history

\* KeepLast off by one: the last 101 are kept
KeepLastOneMore(history) ==
    IF Len(history) > HistoryKeep + 1
    THEN SubSeq(history, Len(history) - HistoryKeep, Len(history))
    ELSE history

\* self.alert_history[-100:]
KeepLast(history) ==
    IF Len(history) > HistoryKeep
    THEN SubSeq(history, Len(history) - HistoryKeep + 1, Len(history))
    ELSE history

\* FilterStep with the truncation inside the loop, after every append
FilterStepTruncating(alert, st, current_time, cooldown) ==
    IF IsDuplicate(alert, st[2], current_time, cooldown)
    THEN st
    ELSE <<Append(st[1], alert), KeepLast(Append(st[2], alert))>>

\* FilterStep with filtered_alerts.insert(0, alert)
FilterStepPrepending(alert, st, current_time, cooldown) ==
    IF IsDuplicate(alert, st[2], current_time, cooldown)
    THEN st
    ELSE <<(<<alert>> \o st[1]), Append(st[2], alert)>>

\* FilterStep with a suppressed candidate appended to alert_history as well
FilterStepRecordingSuppressed(alert, st, current_time, cooldown) ==
    IF IsDuplicate(alert, st[2], current_time, cooldown)
    THEN <<st[1], Append(st[2], alert)>>
    ELSE <<Append(st[1], alert), Append(st[2], alert)>>

\* the body of the loop for one candidate, on the pair
\* st = <<filtered_alerts, alert_history>>: a duplicate changes nothing, any
\* other candidate is appended to both
FilterStep(alert, st, current_time, cooldown) ==
    IF IsDuplicate(alert, st[2], current_time, cooldown)
    THEN st
    ELSE <<Append(st[1], alert), Append(st[2], alert)>>

\* the loop over new_alerts[lo..hi], in order (the first half, then the
\* second half on the state the first half leaves)
RECURSIVE FilterLoop(_, _, _, _, _, _)
FilterLoop(lo, hi, new_alerts, st, current_time, cooldown) ==
    IF lo > hi THEN st
    ELSE IF lo = hi THEN FilterStep(new_alerts[lo], st, current_time, cooldown)
    ELSE LET mid == (lo + hi) \div 2
             first == {FilterLoop(lo, mid, new_alerts, st, current_time, cooldown)}
         IN  CHOOSE r \in {FilterLoop(mid + 1, hi, new_alerts, s, current_time, cooldown) :
                              s \in first} : TRUE

\* the whole call: [filtered |-> the returned list, history |-> alert_history after]
filter_duplicate_alerts(new_alerts, history, current_time, cooldown) ==
    LET r == FilterLoop(1, Len(new_alerts), new_alerts, <<<<>>, history>>,
                        current_time, cooldown)
    IN  [filtered |-> r[1], history |-> KeepLast(r[2])]

----------------------------------------------------------------------------
\* check_price_alerts

\* a cell of a position record: a number, a value float() rejects (text, an
\* empty cell), or no such key in the dictionary
Number(n) == [tag |-> "number", value |-> n]
Text == [tag |-> "text", value |-> 0]
Missing == [tag |-> "missing", value |-> 0]

\* float(stock_data.get(key, 0)): whether it raises, and what it gives otherwise
FloatRaises(cell) == cell.tag = "text"
Float(cell) == IF cell.tag = "missing" THEN 0 ELSE cell.value

\* IncompleteData with buy_price left out of the list
IncompleteDataNoBuy(current_price, target_price, stop_loss, buy_price) ==
    current_price = 0 \/ target_price = 0 \/ stop_loss = 0

\* not all([current_price, target_price, stop_loss, buy_price])
IncompleteData(current_price, target_price, stop_loss, buy_price) ==
    current_price = 0 \/ target_price = 0 \/ stop_loss = 0 \/ buy_price = 0

\* HitAlerts with current_price < stop_loss
HitAlertsStrictStop(symbol, current_price, target_price, stop_loss, timestamp) ==
    IF current_price >= target_price
    THEN <<Alert(TARGET_HIT, symbol, "TARGET HIT", current_price,
                 Scale * target_price, timestamp, "HIGH")>>
    ELSE IF current_price < stop_loss
    THEN <<Alert(STOP_LOSS, symbol, "STOP LOSS HIT", current_price,
                 Scale * stop_loss, timestamp, "CRITICAL")>>
    ELSE <<>>

\* HitAlerts with the stop-loss rule as an if of its own rather than an elif
HitAlertsBothIfs(symbol, current_price, target_price, stop_loss, timestamp) ==
    (IF current_price >= target_price
     THEN <<Alert(TARGET_HIT, symbol, "TARGET HIT", current_price,
                  Scale * target_price, timestamp, "HIGH")>>
     ELSE <<>>)
    \o (IF current_price <= stop_loss
        THEN <<Alert(STOP_LOSS, symbol, "STOP LOSS HIT", current_price,
                     Scale * stop_loss, timestamp, "CRITICAL")>>
        ELSE <<>>)

\* the if / elif of the two "hit" rules
HitAlerts(symbol, current_price, target_price, stop_loss, timestamp) ==
    IF current_price >= target_price
    THEN <<Alert(TARGET_HIT, symbol, "TARGET HIT", current_price,
                 Scale * target_price, timestamp, "HIGH")>>
    ELSE IF current_price <= stop_loss
    THEN <<Alert(STOP_LOSS, symbol, "STOP LOSS HIT", current_price,
                 Scale * stop_loss, timestamp, "CRITICAL")>>
    ELSE <<>>

\* profit_percent and loss_percent divide by buy_price
HitRaises(current_price, target_price, stop_loss, buy_price) ==
    /\ current_price >= target_price \/ current_price <= stop_loss
    /\ buy_price = 0

\* ApproachingAlerts with target_buffer <= current_price <= target_price
ApproachingAlertsInclusive(symbol, current_price, target_price, stop_loss, timestamp) ==
    IF /\ TargetBufferPct * target_price <= Scale * current_price
       /\ current_price <= target_price
    THEN <<Alert(TARGET_HIT, symbol, "APPROACHING TARGET", current_price,
                 TargetBufferPct * target_price, timestamp, "MEDIUM")>>
    ELSE IF /\ stop_loss < current_price
            /\ Scale * current_price <= StopBufferPct * stop_loss
    THEN <<Alert(STOP_LOSS, symbol, "APPROACHING STOP LOSS", current_price,
                 StopBufferPct * stop_loss, timestamp, "MEDIUM")>>
    ELSE <<>>

\* ApproachingAlerts with stop_loss < current_price < stop_buffer
ApproachingAlertsStrictStop(symbol, current_price, target_price, stop_loss, timestamp) ==
    IF /\ TargetBufferPct * target_price <= Scale * current_price
       /\ current_price < target_price
    THEN <<Alert(TARGET_HIT, symbol, "APPROACHING TARGET", current_price,
                 TargetBufferPct * target_price, timestamp, "MEDIUM")>>
    ELSE IF /\ stop_loss < current_price
            /\ Scale * current_price < StopBufferPct * stop_loss
    THEN <<Alert(STOP_LOSS, symbol, "APPROACHING STOP LOSS", current_price,
                 StopBufferPct * stop_loss, timestamp, "MEDIUM")>>
    ELSE <<>>

\* ApproachingAlerts with alert types of their own
ApproachingAlertsOwnTypes(symbol, current_price, target_price, stop_loss, timestamp) ==
    IF /\ TargetBufferPct * target_price <= Scale * current_price
       /\ current_price < target_price
    THEN <<Alert("approaching_target", symbol, "APPROACHING TARGET", current_price,
                 TargetBufferPct * target_price, timestamp, "MEDIUM")>>
    ELSE IF /\ stop_loss < current_price
            /\ Scale * current_price <= StopBufferPct * stop_loss
    THEN <<Alert("approaching_stop", symbol, "APPROACHING STOP LOSS", current_price,
                 StopBufferPct * stop_loss, timestamp, "MEDIUM")>>
    ELSE <<>>

\* the if / elif of the two "approaching" rules, with
\* target_buffer = target_price * 0.95 and stop_buffer = stop_loss * 1.05
ApproachingAlerts(symbol, current_price, target_price, stop_loss, timestamp) ==
    IF /\ TargetBufferPct * target_price <= Scale * current_price
       /\ current_price < target_price
    THEN <<Alert(TARGET_HIT, symbol, "APPROACHING TARGET", current_price,
                 TargetBufferPct * target_price, timestamp, "MEDIUM")>>
    ELSE IF /\ stop_loss < current_price
            /\ Scale * current_price <= StopBufferPct * stop_loss
    THEN <<Alert(STOP_LOSS, symbol, "APPROACHING STOP LOSS", current_price,
                 StopBufferPct * stop_loss, timestamp, "MEDIUM")>>
    ELSE <<>>

\* PriceRules with the four rules in one if / elif chain: the approaching
\* rules are tried only when no hit rule fired
PriceRulesOneChain(stock, timestamp) ==
    LET symbol == stock.Stock_Symbol
        current_price == Float(stock.Current_Price)
        target_price == Float(stock.Target_Price)
        stop_loss == Float(stock.Stop_Loss)
        buy_price == Float(stock.Buy_Price)
    IN  IF \/ FloatRaises(stock.Current_Price)
           \/ FloatRaises(stock.Target_Price)
           \/ FloatRaises(stock.Stop_Loss)
           \/ FloatRaises(stock.Buy_Price)
        THEN [alerts |-> <<>>, exception |-> TRUE]
        ELSE IF IncompleteData(current_price, target_price, stop_loss, buy_price)
        THEN [alerts |-> <<>>, exception |-> FALSE]
        ELSE IF HitRaises(current_price, target_price, stop_loss, buy_price)
        THEN [alerts |-> <<>>, exception |-> TRUE]
        ELSE [alerts |-> IF HitAlerts(symbol, current_price, target_price, stop_loss,
                                      timestamp) # <<>>
                         THEN HitAlerts(symbol, current_price, target_price, stop_loss,
                                        timestamp)
                         ELSE ApproachingAlerts(symbol, current_price, target_price,
                                                stop_loss, timestamp),
              exception |-> FALSE]

\* the body of the try block: the alerts appended, and whether an exception
\* left the block
PriceRules(stock, timestamp) ==
    LET symbol == stock.Stock_Symbol
        current_price == Float(stock.Current_Price)
        target_price == Float(stock.Target_Price)
        stop_loss == Float(stock.Stop_Loss)
        buy_price == Float(stock.Buy_Price)
    IN  IF \/ FloatRaises(stock.Current_Price)
           \/ FloatRaises(stock.Target_Price)
           \/ FloatRaises(stock.Stop_Loss)
           \/ FloatRaises(stock.Buy_Price)
        THEN [alerts |-> <<>>, exception |-> TRUE]
        ELSE IF IncompleteData(current_price, target_price, stop_loss, buy_price)
        THEN [alerts |-> <<>>, exception |-> FALSE]
        ELSE IF HitRaises(current_price, target_price, stop_loss, buy_price)
        THEN [alerts |-> <<>>, exception |-> TRUE]
        ELSE [alerts |-> HitAlerts(symbol, current_price, target_price, stop_loss,
                                   timestamp)
                         \o ApproachingAlerts(symbol, current_price, target_price,
                                              stop_loss, timestamp),
              exception |-> FALSE]

\* the whole call: an exception is caught and logged, the alerts appended so
\* far are returned
check_price_alerts(stock, timestamp) ==
    LET body == PriceRules(stock, timestamp)
    IN  [alerts |-> body.alerts, logged |-> body.exception, raised |-> FALSE,
         returned |-> TRUE]

\* no call yet
NoResult == [alerts |-> <<>>, logged |-> FALSE, raised |-> FALSE, returned |-> FALSE]

\* the cells the records are drawn from
PriceCells == {Missing, Text} \cup {Number(n) : n \in {0, 0 - 100, 95, 96, 100, 105}}
BuyCells == {Missing, Text, Number(0), Number(80)}

PriceRecords ==
    [Stock_Symbol : {1}, Current_Price : PriceCells, Target_Price : PriceCells,
     Stop_Loss : PriceCells, Buy_Price : BuyCells]

NoRecord ==
    [Stock_Symbol |-> 1, Current_Price |-> Missing, Target_Price |-> Missing,
     Stop_Loss |-> Missing, Buy_Price |-> Missing]

----------------------------------------------------------------------------
\* check_technical_alerts
\*
\* An indicator snapshot is a dictionary; the model keeps the six keys the
\* evaluator reads, each a cell, and whether the dictionary has any other key
\* (bb_upper, bb_lower, current_price).  rsi and the EMAs are whole numbers,
\* macd, macd_signal and bb_position are counted in hundredths.

\* indicators.get('rsi', 50), rsi <= 25, rsi >= 75
RsiDefault == 50
RsiOversold == 25
RsiOverbought == 75

\* abs(macd - macd_signal) < 0.1, in hundredths
MacdMaxGap == 10

\* indicators.get('bb_position', 0.5), <= 0.05, >= 0.95, in hundredths
BbDefault == 50
BbLow == 5
BbHigh == 95

\* abs(ema_50 - ema_200) / ema_200 < 0.02, in hundredths
EmaMaxGap == 2

Abs(x) == IF x < 0 THEN 0 - x ELSE x

TechAlert(type, symbol, message, indicator, value, timestamp, priority) ==
    [type |-> type, symbol |-> symbol, message |-> message, indicator |-> indicator,
     value |-> value, timestamp |-> timestamp, priority |-> priority]

\* indicators.get(key, default)
Get(cell, default) == IF cell.tag = "missing" THEN default ELSE cell.value

\* not indicators
IsEmpty(ind) ==
    /\ ~ind.other
    /\ \A f \in {"rsi", "macd", "macd_signal", "bb_position", "ema_50", "ema_200"} :
          ind[f].tag = "missing"

\* a comparison of a non-numeric value with a number raises TypeError
Compares(cell) == cell.tag # "text"

\* RSI alerts with the two branches as separate ifs and the bounds strict
RsiAlertsStrict(symbol, rsi, timestamp) ==
    IF rsi < RsiOversold
    THEN <<TechAlert(TECHNICAL_BUY, symbol, "RSI OVERSOLD", "RSI", rsi, timestamp, "HIGH")>>
    ELSE IF rsi > RsiOverbought
    THEN <<TechAlert(TECHNICAL_SELL, symbol, "RSI OVERBOUGHT", "RSI", rsi, timestamp, "HIGH")>>
    ELSE <<>>

\* RSI alerts
RsiAlerts(symbol, rsi, timestamp) ==
    IF rsi <= RsiOversold
    THEN <<TechAlert(TECHNICAL_BUY, symbol, "RSI OVERSOLD", "RSI", rsi, timestamp, "HIGH")>>
    ELSE IF rsi >= RsiOverbought
    THEN <<TechAlert(TECHNICAL_SELL, symbol, "RSI OVERBOUGHT", "RSI", rsi, timestamp, "HIGH")>>
    ELSE <<>>

\* MACD alerts
MacdAlerts(symbol, macd, macd_signal, timestamp) ==
    IF macd > macd_signal /\ Abs(macd - macd_signal) < MacdMaxGap
    THEN <<TechAlert(TECHNICAL_BUY, symbol, "MACD BULLISH CROSSOVER", "MACD",
                     macd - macd_signal, timestamp, "MEDIUM")>>
    ELSE <<>>

\* Bollinger Bands alerts
BollingerAlerts(symbol, bb_position, timestamp) ==
    IF bb_position <= BbLow
    THEN <<TechAlert(TECHNICAL_BUY, symbol, "BOLLINGER OVERSOLD", "Bollinger Bands",
                     bb_position, timestamp, "MEDIUM")>>
    ELSE IF bb_position >= BbHigh
    THEN <<TechAlert(TECHNICAL_SELL, symbol, "BOLLINGER OVERBOUGHT", "Bollinger Bands",
                     bb_position, timestamp, "MEDIUM")>>
    ELSE <<>>

\* ema_50 > ema_200 and abs(ema_50 - ema_200) / ema_200 < 0.02 raises
\* ZeroDivisionError when the division is reached with ema_200 = 0
EmaRaises(ema_50, ema_200) == ema_50 > ema_200 /\ ema_200 = 0

\* the quotient abs(ema_50 - ema_200) / ema_200 is below 0.02; a negative
\* ema_200 makes the quotient negative
EmaNear(ema_50, ema_200) ==
    IF ema_200 > 0
    THEN Scale * Abs(ema_50 - ema_200) < EmaMaxGap * ema_200
    ELSE TRUE

\* EMA crossover alerts (ema_200 # 0 when the division is reached); value is
\* the crossover in hundredths, rounded down
EmaAlerts(symbol, ema_50, ema_200, timestamp) ==
    IF ema_50 > ema_200 /\ EmaNear(ema_50, ema_200)
    THEN <<TechAlert(TECHNICAL_BUY, symbol, "GOLDEN CROSS FORMING", "EMA Cross",
                     (Scale * (ema_50 - ema_200)) \div ema_200, timestamp, "HIGH")>>
    ELSE <<>>

\* the try block with every rule group behind the first one that fires
TechnicalRulesOneChain(symbol, ind, timestamp) ==
    LET rsi == Get(ind.rsi, RsiDefault)
        macd == Get(ind.macd, 0)
        macd_signal == Get(ind.macd_signal, 0)
        bb_position == Get(ind.bb_position, BbDefault)
        ema_50 == Get(ind.ema_50, 0)
        ema_200 == Get(ind.ema_200, 0)
        a1 == RsiAlerts(symbol, rsi, timestamp)
        a2 == MacdAlerts(symbol, macd, macd_signal, timestamp)
        a3 == BollingerAlerts(symbol, bb_position, timestamp)
    IN  IF ~Compares(ind.rsi) THEN [alerts |-> <<>>, exception |-> TRUE]
        ELSE IF a1 # <<>> THEN [alerts |-> a1, exception |-> FALSE]
        ELSE IF ~(Compares(ind.macd) /\ Compares(ind.macd_signal))
        THEN [alerts |-> <<>>, exception |-> TRUE]
        ELSE IF a2 # <<>> THEN [alerts |-> a2, exception |-> FALSE]
        ELSE IF ~Compares(ind.bb_position) THEN [alerts |-> <<>>, exception |-> TRUE]
        ELSE IF a3 # <<>> THEN [alerts |-> a3, exception |-> FALSE]
        ELSE IF ~(Compares(ind.ema_50) /\ Compares(ind.ema_200)) \/ EmaRaises(ema_50, ema_200)
        THEN [alerts |-> <<>>, exception |-> TRUE]
        ELSE [alerts |-> EmaAlerts(symbol, ema_50, ema_200, timestamp),
              exception |-> FALSE]

\* the try block of a non-empty snapshot: the alerts appended before an
\* exception, and whether one was raised
TechnicalRules(symbol, ind, timestamp) ==
    LET rsi == Get(ind.rsi, RsiDefault)
        macd == Get(ind.macd, 0)
        macd_signal == Get(ind.macd_signal, 0)
        bb_position == Get(ind.bb_position, BbDefault)
        ema_50 == Get(ind.ema_50, 0)
        ema_200 == Get(ind.ema_200, 0)
        a1 == RsiAlerts(symbol, rsi, timestamp)
        a2 == a1 \o MacdAlerts(symbol, macd, macd_signal, timestamp)
        a3 == a2 \o BollingerAlerts(symbol, bb_position, timestamp)
    IN  IF ~Compares(ind.rsi) THEN [alerts |-> <<>>, exception |-> TRUE]
        ELSE IF ~(Compares(ind.macd) /\ Compares(ind.macd_signal))
        THEN [alerts |-> a1, exception |-> TRUE]
        ELSE IF ~Compares(ind.bb_position) THEN [alerts |-> a2, exception |-> TRUE]
        ELSE IF ~(Compares(ind.ema_50) /\ Compares(ind.ema_200)) \/ EmaRaises(ema_50, ema_200)
        THEN [alerts |-> a3, exception |-> TRUE]
        ELSE [alerts |-> a3 \o EmaAlerts(symbol, ema_50, ema_200, timestamp),
              exception |-> FALSE]

\* the call without its exception handler: the exception leaves the function
check_technical_alerts_unguarded(symbol, ind, timestamp) ==
    IF IsEmpty(ind)
    THEN [alerts |-> <<>>, logged |-> FALSE, raised |-> FALSE, returned |-> TRUE]
    ELSE LET body == TechnicalRules(symbol, ind, timestamp)
         IN  [alerts |-> IF body.exception THEN <<>> ELSE body.alerts,
              logged |-> FALSE, raised |-> body.exception,
              returned |-> ~body.exception]

\* the whole call: an empty snapshot returns at once; an exception is caught and
\* logged, and the alerts appended so far are returned
check_technical_alerts(symbol, ind, timestamp) ==
    IF IsEmpty(ind)
    THEN [alerts |-> <<>>, logged |-> FALSE, raised |-> FALSE, returned |-> TRUE]
    ELSE LET body == TechnicalRules(symbol, ind, timestamp)
         IN  [alerts |-> body.alerts, logged |-> body.exception, raised |-> FALSE,
              returned |-> TRUE]

\* the cells the snapshots are drawn from
RsiCells == {Missing, Text} \cup
            {Number(n) : n \in {RsiOversold - 5, RsiOversold, RsiOversold + 1, RsiDefault + 10,
                                RsiOverbought - 1, RsiOverbought, RsiOverbought + 5}}
MacdCells == {Missing, Text} \cup
             {Number(n) : n \in {0 - MacdMaxGap, MacdMaxGap - 5, MacdMaxGap}}
MacdSignalCells == {Missing, Number(0)}
BbCells == {Missing, Text} \cup
           {Number(n) : n \in {BbLow - 3, BbLow, BbLow + 1, BbHigh - 1, BbHigh}}
Ema50Cells == {Missing, Number(Scale + 1), Number(Scale + EmaMaxGap)}
Ema200Cells == {Missing, Number(0), Number(Scale)}

Snapshots ==
    [rsi : RsiCells, macd : MacdCells, macd_signal : MacdSignalCells,
     bb_position : BbCells, ema_50 : Ema50Cells, ema_200 : Ema200Cells,
     other : BOOLEAN]

NoSnapshot ==
    [rsi |-> Missing, macd |-> Missing, macd_signal |-> Missing,
     bb_position |-> Missing, ema_50 |-> Missing, ema_200 |-> Missing,
     other |-> FALSE]

----------------------------------------------------------------------------
\* check_portfolio_alerts
\*
\* A portfolio is a list of records; the model keeps the two cells the
\* evaluator reads.  The buy prices of the model divide 100 * (current - buy),
\* so every pnl_percent is a whole number.

PORTFOLIO_LOSS == "portfolio_loss"
LOW_WINRATE == "low_winrate"

\* 'symbol': 'PORTFOLIO', numbered like the ticker symbols
PORTFOLIO == 0

\* * 100
Percent == 100

\* avg_pnl <= -10, win_rate < 30
LossLimit == 0 - 10
WinRateLimit == 30

PortfolioAlert(type, message, timestamp, priority) ==
    [type |-> type, symbol |-> PORTFOLIO, message |-> message,
     timestamp |-> timestamp, priority |-> priority]

\* ((current_price - buy_price) / buy_price) * 100
PnlPercent(buy_price, current_price) ==
    (Percent * (current_price - buy_price)) \div buy_price

\* the totals before the loop
NoTotals == [total_pnl |-> 0, profitable_positions |-> 0, losing_positions |-> 0]

\* one pass of the loop body: a record whose conversion raises, or with a
\* non-positive price, leaves the totals alone
CountStock(stock, tot) ==
    IF FloatRaises(stock.Buy_Price) \/ FloatRaises(stock.Current_Price)
    THEN tot
    ELSE LET buy_price == Float(stock.Buy_Price)
             current_price == Float(stock.Current_Price)
         IN  IF buy_price > 0 /\ current_price > 0
             THEN LET pnl_percent == PnlPercent(buy_price, current_price)
                  IN  [total_pnl |-> tot.total_pnl + pnl_percent,
                       profitable_positions |->
                           tot.profitable_positions + (IF pnl_percent > 0 THEN 1 ELSE 0),
                       losing_positions |->
                           tot.losing_positions + (IF pnl_percent > 0 THEN 0 ELSE 1)]
             ELSE tot

\* the loop over stocks_data[i..]
RECURSIVE CountStocks(_, _, _)
CountStocks(stocks, i, tot) ==
    IF i > Len(stocks) THEN tot
    ELSE CountStocks(stocks, i + 1, CountStock(stocks[i], tot))

\* the two rules as separate ifs
PortfolioRulesBothIfs(tot, total_positions, timestamp) ==
    (IF tot.total_pnl <= LossLimit * total_positions
     THEN <<PortfolioAlert(PORTFOLIO_LOSS, "PORTFOLIO ALERT", timestamp, "HIGH")>>
     ELSE <<>>)
    \o (IF Percent * tot.profitable_positions < WinRateLimit * total_positions
        THEN <<PortfolioAlert(LOW_WINRATE, "LOW WIN RATE ALERT", timestamp, "MEDIUM")>>
        ELSE <<>>)

\* the rules on avg_pnl = total_pnl / total_positions and
\* win_rate = profitable_positions / total_positions * 100, total_positions > 0
PortfolioRules(tot, total_positions, timestamp) ==
    IF tot.total_pnl <= LossLimit * total_positions
    THEN <<PortfolioAlert(PORTFOLIO_LOSS, "PORTFOLIO ALERT", timestamp, "HIGH")>>
    ELSE IF Percent * tot.profitable_positions < WinRateLimit * total_positions
    THEN <<PortfolioAlert(LOW_WINRATE, "LOW WIN RATE ALERT", timestamp, "MEDIUM")>>
    ELSE <<>>

\* the whole call; nothing in the body raises past the inner handler
check_portfolio_alerts(stocks, timestamp) ==
    IF stocks = <<>>
    THEN [alerts |-> <<>>, logged |-> FALSE, raised |-> FALSE, returned |-> TRUE]
    ELSE [alerts |-> PortfolioRules(CountStocks(stocks, 1, NoTotals), Len(stocks), timestamp),
          logged |-> FALSE, raised |-> FALSE, returned |-> TRUE]

\* the positions the portfolios are drawn from
MaxPositions == 3

PositionBuyCells == {Text, Number(0), Number(100)}
PositionCurrentCells ==
    {Number(n) : n \in {0, 80, 82, 85, 95, 120}}

Positions == [Buy_Price : PositionBuyCells, Current_Price : PositionCurrentCells]

----------------------------------------------------------------------------
\* format_alert_message and get_alert_summary
\*
\* A message is a record of its parts; a summary is its sequence of lines.

\* the members of AlertType the evaluators use; a portfolio alert carries a
\* plain string as its type, which has no .value
AlertTypes == {TARGET_HIT, STOP_LOSS, TECHNICAL_BUY, TECHNICAL_SELL}
HasValue(type) == type \in AlertTypes

\* type.value.replace('_', ' ').title()
Humanize(type) ==
    CASE type = TARGET_HIT -> "Target Hit"
      [] type = STOP_LOSS -> "Stop Loss"
      [] type = TECHNICAL_BUY -> "Technical Buy"
      [] type = TECHNICAL_SELL -> "Technical Sell"

\* the emoji, the time and the message of one alert
format_alert_message(alert) ==
    [kind |-> "alert", priority |-> alert.priority, timestamp |-> alert.timestamp,
     message |-> alert.message, symbol |-> alert.symbol, type |-> alert.type]

WithPriority(alerts, priority) == SelectSeq(alerts, LAMBDA a : a.priority = priority)

SummaryLine(alert) ==
    [kind |-> "line", symbol |-> alert.symbol, text |-> Humanize(alert.type)]

\* one block of the summary: its heading and one line per alert
GroupLines(priority, group) ==
    IF group = <<>> THEN <<>>
    ELSE <<[kind |-> "group", priority |-> priority, count |-> Len(group)]>>
         \o [i \in 1..Len(group) |-> SummaryLine(group[i])]

\* the whole call: AttributeError leaves the function when a listed alert's
\* type has no .value
get_alert_summary(alerts) ==
    IF alerts = <<>>
    THEN [text |-> <<[kind |-> "none"]>>, raised |-> FALSE]
    ELSE LET critical == WithPriority(alerts, "CRITICAL")
             high == WithPriority(alerts, "HIGH")
             medium == WithPriority(alerts, "MEDIUM")
             listed == critical \o high \o medium
         IN  IF \E i \in 1..Len(listed) : ~HasValue(listed[i].type)
             THEN [text |-> <<>>, raised |-> TRUE]
             ELSE [text |-> <<[kind |-> "summary", count |-> Len(alerts)]>>
                            \o GroupLines("CRITICAL", critical)
                            \o GroupLines("HIGH", high)
                            \o GroupLines("MEDIUM", medium),
                   raised |-> FALSE]

NoSummary == [text |-> <<>>, raised |-> FALSE, returned |-> FALSE]

Range(seq) == {seq[i] : i \in 1..Len(seq)}

\* alerts the three evaluators produce, the lists to summarise are drawn from
MaxSummaryAlerts == 3

SummaryRecords ==
    [Stock_Symbol : {1}, Current_Price : {Number(95), Number(96), Number(100)},
     Target_Price : {Number(100)}, Stop_Loss : {Number(95)}, Buy_Price : {Number(80)}]

SummarySnapshots ==
    [rsi : {Number(RsiOversold), Number(RsiDefault)}, macd : {Missing},
     macd_signal : {Missing}, bb_position : {Missing, Number(BbHigh)},
     ema_50 : {Missing}, ema_200 : {Missing}, other : {TRUE}]

EvaluatorAlerts ==
    UNION ({Range(check_price_alerts(r, 0).alerts) : r \in SummaryRecords}
           \cup {Range(check_technical_alerts(2, ind, 0).alerts) : ind \in SummarySnapshots}
           \cup {Range(check_portfolio_alerts(<<p>>, 0).alerts) : p \in Positions})

----------------------------------------------------------------------------
\* monitor_stocks and send_bulk_alerts on the event loop
\*
\* Coroutines run one at a time: running is the task that holds the loop, 0
\* when the loop is free.  A task gives the loop up only at an await that
\* suspends (the network send in send_alert and asyncio.sleep).

\* the monitoring ticks that may be in flight together
Ticks == {1, 2}

\* the clock and the other jobs stop at these bounds
MaxLoopTime == 2
MaxOtherJobs == 1

\* the rows of the watchlist with the snapshot computed for each symbol
HitRecord(symbol) ==
    [Stock_Symbol |-> symbol, Current_Price |-> Number(100), Target_Price |-> Number(100),
     Stop_Loss |-> Number(95), Buy_Price |-> Number(80)]
BadRecord(symbol) ==
    [Stock_Symbol |-> symbol, Current_Price |-> Text, Target_Price |-> Number(100),
     Stop_Loss |-> Number(95), Buy_Price |-> Number(80)]
FailingSnapshot ==
    [NoSnapshot EXCEPT !.rsi = Number(RsiOversold - 5), !.macd = Text, !.other = TRUE]
MediumSnapshot ==
    [NoSnapshot EXCEPT !.bb_position = Number(BbLow - 3), !.other = TRUE]

Row(stock, ind) == [stock |-> stock, indicators |-> ind]

Watchlists ==
    {<<Row(HitRecord(1), NoSnapshot), Row(HitRecord(2), NoSnapshot)>>,
     <<Row(BadRecord(1), FailingSnapshot), Row(HitRecord(2), NoSnapshot)>>,
     <<Row(BadRecord(1), FailingSnapshot), Row(BadRecord(2), MediumSnapshot)>>}

\* the calls monitor_stocks makes for one row: check_price_alerts, then
\* check_technical_alerts when the snapshot is not empty
RowResults(row, timestamp) ==
    <<check_price_alerts(row.stock, timestamp)>>
    \o (IF IsEmpty(row.indicators) THEN <<>>
        ELSE <<check_technical_alerts(row.stock.Stock_Symbol, row.indicators, timestamp)>>)

RECURSIVE Flatten(_)
Flatten(seqs) == IF seqs = <<>> THEN <<>> ELSE Head(seqs) \o Flatten(Tail(seqs))

\* every evaluator call of one tick, in order: the rows, then the portfolio
TickResults(watch, timestamp) ==
    Flatten([i \in 1..Len(watch) |-> RowResults(watch[i], timestamp)])
    \o <<check_portfolio_alerts([i \in 1..Len(watch) |-> watch[i].stock], timestamp)>>

\* all_alerts after the loop and the portfolio check
AllAlerts(results) == Flatten([i \in 1..Len(results) |-> results[i].alerts])

IdleTick ==
    [pc |-> "idle", watch |-> <<>>, evaluated_at |-> 0, all_alerts |-> <<>>,
     logged |-> FALSE, failed |-> FALSE, current_time |-> 0, before |-> <<>>,
     filtered_alerts |-> <<>>, handed |-> <<>>, pending |-> <<>>, other_alerts |-> <<>>,
     outbox |-> <<>>]

----------------------------------------------------------------------------
\* The candidates offered to the filter

\* how long before the call a candidate was created: just now, or a full
\* cooldown earlier (a slow evaluation)
Lags == {0, CooldownMinutes}

\* the clock moves in steps of half a cooldown
TimeStep == CooldownMinutes \div 2

\* symbol, type, headline of the message and priority of the candidates that
\* are chosen one by one: two types for symbol 1, a second symbol
Shapes ==
    {<<1, TARGET_HIT, "TARGET HIT", "HIGH">>,
     <<1, STOP_LOSS, "STOP LOSS HIT", "CRITICAL">>,
     <<2, TARGET_HIT, "TARGET HIT", "HIGH">>}

\* in a run with a large batch
BulkShapes == {<<1, TARGET_HIT, "TARGET HIT", "HIGH">>}

Candidate(sh, ts) == Alert(sh[2], sh[1], sh[3], 0, 0, ts, sh[4])

Candidates(shapes, t) == {Candidate(sh, t - lag) : sh \in shapes, lag \in Lags}

\* the symbols of the candidates chosen one by one; the filler alerts of a
\* large batch take the symbols after them
ChosenSymbols == {sh[1] : sh \in Shapes}

\* k technical alerts, one per further symbol, created at t
Fillers(k, t) ==
    [j \in 1..k |-> Alert(TECHNICAL_BUY, Cardinality(ChosenSymbols) + j, "RSI", 0, 0,
                          t, "HIGH")]

BulkSizes == {HistoryKeep - 1, HistoryKeep, HistoryKeep + 1}

\* all sequences over S of length at most n
RECURSIVE SeqsUpTo(_, _)
SeqsUpTo(S, n) ==
    IF n <= 0 THEN {<<>>}
    ELSE LET shorter == SeqsUpTo(S, n - 1)
         IN  shorter \cup {Append(q, x) : q \in {p \in shorter : Len(p) = n - 1}, x \in S}

\* candidates chosen one by one, and large batches, in the calls so far
RECURSIVE ChosenIn(_)
ChosenIn(log) ==
    IF log = <<>> THEN 0
    ELSE Len(log[1].new_alerts) - log[1].bulk + ChosenIn(Tail(log))

ChosenSoFar == ChosenIn(calls)
NoBulkYet == \A c \in 1..Len(calls) : calls[c].bulk = 0

Min(a, b) == IF a < b THEN a ELSE b

----------------------------------------------------------------------------
\* The position store and the chat commands
\*
\* A symbol is the text typed in the chat or kept in the sheet. A parameter of
\* /add_stock is Missing when its regular expression finds nothing, Text when
\* float() rejects what it found ("1.2.3"), Number(n) otherwise.

\* get_stock_by_symbol found nothing
None == [Stock_Symbol |-> "", Buy_Price |-> 0, Target_Price |-> 0, Stop_Loss |-> 0,
         Current_Price |-> 0, found |-> FALSE]

\* str.upper() on the symbols of the chat
Upper(symbol) == CASE symbol = "aapl" -> "AAPL" [] OTHER -> symbol

ChatSymbols == {"aapl", "AAPL", "TSLA"}

\* the row add_stock builds: the symbol in upper case, current price 0
StoreRow(symbol, buy_price, target_price, stop_loss) ==
    [Stock_Symbol |-> Upper(symbol), Buy_Price |-> buy_price,
     Target_Price |-> target_price, Stop_Loss |-> stop_loss, Current_Price |-> 0,
     found |-> TRUE]

\* add_stock: append_row, or False when it raises
add_stock(sheet, symbol, buy_price, target_price, stop_loss, appended) ==
    IF appended
    THEN [sheet |-> Append(sheet, StoreRow(symbol, buy_price, target_price, stop_loss)),
          result |-> TRUE]
    ELSE [sheet |-> sheet, result |-> FALSE]

\* the rows whose 'Stock Symbol' equals symbol.upper(), and the first of them
Matching(sheet, symbol) == {i \in 1..Len(sheet) : sheet[i].Stock_Symbol = Upper(symbol)}
FirstMatching(sheet, symbol) ==
    CHOOSE i \in Matching(sheet, symbol) : \A j \in Matching(sheet, symbol) : i <= j

\* remove_stock: delete_rows on the first matching row; False when there is
\* none or the sheet raises
remove_stock(sheet, symbol, sheet_ok) ==
    IF sheet_ok /\ Matching(sheet, symbol) # {}
    THEN LET i == FirstMatching(sheet, symbol)
         IN  [sheet |-> SubSeq(sheet, 1, i - 1) \o SubSeq(sheet, i + 1, Len(sheet)),
              result |-> TRUE]
    ELSE [sheet |-> sheet, result |-> FALSE]

\* update_current_price: update_cell on the first matching row
update_current_price(sheet, symbol, current_price, sheet_ok) ==
    IF sheet_ok /\ Matching(sheet, symbol) # {}
    THEN [sheet EXCEPT ![FirstMatching(sheet, symbol)].Current_Price = current_price]
    ELSE sheet

\* get_stock_by_symbol: the first matching record; None when there is none or
\* get_all_stocks returned [] after an exception
get_stock_by_symbol(sheet, symbol, sheet_ok) ==
    IF sheet_ok /\ Matching(sheet, symbol) # {}
    THEN sheet[FirstMatching(sheet, symbol)]
    ELSE None

\* the message a command handler answers, as the handler sees it
Request(has_args, symbol, buy, target, stop, valid) ==
    [has_args |-> has_args, symbol |-> symbol, buy |-> buy, target |-> target,
     stop |-> stop, valid |-> valid]
NoRequest == Request(FALSE, "", Missing, Missing, Missing, FALSE)

Reply(command, request, kind, symbol, lines) ==
    [command |-> command, request |-> request, kind |-> kind, symbol |-> symbol,
     lines |-> lines]
NoReply == Reply("none", NoRequest, "none", "", <<>>)

\* the price logic with a target equal to the buy price let through
PriceLogicTargetNotBelow(buy_price, target_price, stop_loss) ==
    IF target_price < buy_price THEN "Target price must be higher than buy price"
    ELSE IF stop_loss >= buy_price THEN "Stop loss must be lower than buy price"
    ELSE "ok"

\* "Validate price logic"
PriceLogic(buy_price, target_price, stop_loss) ==
    IF target_price <= buy_price THEN "Target price must be higher than buy price"
    ELSE IF stop_loss >= buy_price THEN "Stop loss must be lower than buy price"
    ELSE "ok"

\* add_stock_command on the sheet: the sheet it leaves and the text it replies.
\* valid is what validate_symbol returns, appended whether append_row went
\* through, price what get_stock_price returns afterwards (Missing for None),
\* sheet_ok whether the sheet answers update_current_price
add_stock_command(sheet, request, appended, price, sheet_ok) ==
    LET symbol == Upper(request.symbol)
        params == {request.buy, request.target, request.stop}
    IN  IF ~request.has_args
        THEN [sheet |-> sheet, kind |-> "Usage", symbol |-> ""]
        ELSE IF \E p \in params : p.tag = "missing"
        THEN [sheet |-> sheet, kind |-> "Missing parameters!", symbol |-> symbol]
        ELSE IF \E p \in params : p.tag = "text"
        THEN [sheet |-> sheet, kind |-> "Invalid price format!", symbol |-> symbol]
        ELSE IF ~request.valid
        THEN [sheet |-> sheet, kind |-> "Invalid stock symbol", symbol |-> symbol]
        ELSE LET buy_price == request.buy.value
                 target_price == request.target.value
                 stop_loss == request.stop.value
                 logic == PriceLogic(buy_price, target_price, stop_loss)
                 added == add_stock(sheet, symbol, buy_price, target_price, stop_loss,
                                    appended)
             IN  IF logic # "ok"
                 THEN [sheet |-> sheet, kind |-> logic, symbol |-> symbol]
                 ELSE IF ~added.result
                 THEN [sheet |-> sheet, kind |-> "Failed to add", symbol |-> symbol]
                 ELSE IF price.tag = "missing"
                 THEN [sheet |-> added.sheet, kind |-> "Error adding stock",
                       symbol |-> symbol]
                 ELSE [sheet |-> IF price.value # 0
                                 THEN update_current_price(added.sheet, symbol,
                                                           price.value, sheet_ok)
                                 ELSE added.sheet,
                       kind |-> "Added", symbol |-> symbol]

\* remove_stock_command on the sheet: found_ok and removed_ok are whether the
\* sheet answers get_stock_by_symbol and remove_stock
remove_stock_command(sheet, request, found_ok, removed_ok) ==
    LET symbol == Upper(request.symbol)
        found == get_stock_by_symbol(sheet, symbol, found_ok)
        removed == remove_stock(sheet, symbol, removed_ok)
    IN  IF ~request.has_args
        THEN [sheet |-> sheet, kind |-> "Usage", symbol |-> ""]
        ELSE IF found = None
        THEN [sheet |-> sheet, kind |-> "not found", symbol |-> symbol]
        ELSE IF removed.result
        THEN [sheet |-> removed.sheet, kind |-> "Removed", symbol |-> symbol]
        ELSE [sheet |-> sheet, kind |-> "Failed to remove", symbol |-> symbol]

\* what the chat sends with /add_stock
MaxRows == 2
FetchedPrices == {Missing, Number(0), Number(105)}

\* buy, target and stop of a message: one of them missing, one malformed, or
\* three numbers with the target on or above the buy price and the stop loss
\* on or below it
AddParams ==
    {<<Missing, Number(120), Number(90)>>, <<Number(100), Missing, Number(90)>>,
     <<Number(100), Number(120), Missing>>, <<Text, Number(120), Number(90)>>}
    \cup {<<Number(100), Number(target), Number(stop)>> :
             target \in {100, 120}, stop \in {90, 100}}

\* a message without arguments, or a symbol in either case with parameters
AddRequests ==
    {Request(FALSE, "", Missing, Missing, Missing, FALSE)}
    \cup {Request(TRUE, symbol, p[1], p[2], p[3], valid) :
             symbol \in {"aapl", "TSLA"}, p \in AddParams, valid \in BOOLEAN}

RemoveRequests ==
    {Request(FALSE, "", Missing, Missing, Missing, FALSE)}
    \cup {Request(TRUE, symbol, Missing, Missing, Missing, FALSE) : symbol \in ChatSymbols}

\* alert_history[-10:]
RecentAlertsKeep == 10
Recent(history) ==
    IF Len(history) > RecentAlertsKeep
    THEN SubSeq(history, Len(history) - RecentAlertsKeep + 1, Len(history))
    ELSE history

\* str.replace('_', ' ').title() on a type that is a plain string
TitleCase(type) ==
    CASE type = PORTFOLIO_LOSS -> "Portfolio Loss"
      [] type = LOW_WINRATE -> "Low Winrate"

\* alerts_command on the alert_history of the bot's own AlertManager: the
\* newest first; a member of AlertType has no .replace, and the AttributeError
\* is answered by the handler's except clause
alerts_command(history) ==
    LET recent_alerts == Recent(history)
        n == Len(recent_alerts)
    IN  IF recent_alerts = <<>>
        THEN [kind |-> "No recent alerts", lines |-> <<>>]
        ELSE IF \E i \in 1..n : HasValue(recent_alerts[i].type)
        THEN [kind |-> "Error", lines |-> <<>>]
        ELSE [kind |-> "Recent Alerts",
              lines |-> [i \in 1..n |->
                            [kind |-> "line", symbol |-> recent_alerts[n + 1 - i].symbol,
                             text |-> TitleCase(recent_alerts[n + 1 - i].type)]]]

\* The scheduler
\*
\* Times are minutes of the day. A job is its id and its trigger; an interval
\* job first fires one interval after the start, the cron job at 09:00.

UPDATE_INTERVAL_MINUTES == 5
DayMinutes == 24 * 60

JobIds == {"monitor_stocks", "keepalive_ping", "daily_summary"}

IntervalJob(id, minutes) == [id |-> id, trigger |-> "interval", minutes |-> minutes]
CronJob(id, hour, minute) ==
    [id |-> id, trigger |-> "cron", minutes |-> 60 * hour + minute]

\* the scheduler before setup_scheduler
NoScheduler ==
    [jobs |-> {}, running |-> FALSE, started_at |-> 0,
     next_run |-> [id \in JobIds |-> 0], runs |-> [id \in JobIds |-> 0]]

\* setup_scheduler as the class holds it: the second definition of the name
\* in the class body replaces the first one, which also added keepalive_ping
setup_scheduler ==
    {IntervalJob("monitor_stocks", UPDATE_INTERVAL_MINUTES),
     CronJob("daily_summary", 9, 0)}

\* the first fire time of a job added at time t
FirstRun(job, t) ==
    IF job.trigger = "interval" THEN t + job.minutes
    ELSE IF t <= job.minutes THEN job.minutes
    ELSE job.minutes + DayMinutes

\* the fire time after the one at time t
FollowingRun(job, t) ==
    IF job.trigger = "interval" THEN t + job.minutes ELSE t + DayMinutes

\* the bot is started before the cron time, at noon, late in the afternoon
StartTimes == {60 * 8 + 45, 60 * 12, 60 * 16 + 50}
MaxSchedMinutes == 45

----------------------------------------------------------------------------

\* Initial state: AlertManager.__init__

Init ==
    /\ alert_history = <<>>
    /\ cooldown_period = CooldownMinutes
    /\ now = 0
    /\ calls = <<>>
    /\ stock_data = NoRecord
    /\ price_result = NoResult
    /\ indicators = NoSnapshot
    /\ tech_result = NoResult
    /\ stocks_data = <<>>
    /\ portfolio_result = NoResult
    /\ summary_input = <<>>
    /\ summary_result = NoSummary
    /\ ticks = [t \in Ticks |-> IdleTick]
    /\ running = 0
    /\ sent = {}
    /\ chat_id = TRUE
    /\ other_jobs = 0
    /\ worksheet = <<>>
    /\ reply = NoReply
    /\ bot_alert_history = <<>>
    /\ scheduler = NoScheduler

\* time passes between calls
Tick(steps) ==
    /\ now < steps * TimeStep
    /\ now' = now + TimeStep
    /\ UNCHANGED <<alert_history, cooldown_period, calls, evalVars, loopVars, botVars>>

\* one call of filter_duplicate_alerts on the batch new_alerts, k of them fillers
Call(new_alerts, k) ==
    LET r == filter_duplicate_alerts(new_alerts, alert_history, now, cooldown_period)
    IN  /\ alert_history' = r.history
        /\ calls' = Append(calls, [at |-> now, new_alerts |-> new_alerts,
                                   filtered_alerts |-> r.filtered,
                                   before |-> alert_history, bulk |-> k])
        /\ UNCHANGED <<cooldown_period, now, evalVars, loopVars, botVars>>

Advance == Tick(MaxTime)

\* a call with a batch of candidates
Filter ==
    /\ ChosenSoFar < MaxCandidates
    /\ \E new_alerts \in SeqsUpTo(Candidates(Shapes, now), MaxCandidates - ChosenSoFar) :
          /\ new_alerts # <<>>
          /\ Call(new_alerts, 0)

Next == Advance \/ Filter

Spec == Init /\ [][Next]_vars

AdvanceBulk == Tick(MaxBulkTime)

\* a call with one candidate
FilterOne ==
    /\ ChosenSoFar < MaxBulkCandidates
    /\ \E alert \in Candidates(BulkShapes, now) : Call(<<alert>>, 0)

\* the call with the large batch: at most one candidate, then one filler per
\* further symbol, then at most one candidate
FilterBulk ==
    /\ NoBulkYet
    /\ \E k \in BulkSizes :
       \E pre \in SeqsUpTo(Candidates(BulkShapes, now),
                            Min(1, MaxBulkCandidates - ChosenSoFar)) :
       \E post \in SeqsUpTo(Candidates(BulkShapes, now),
                             Min(1, MaxBulkCandidates - ChosenSoFar - Len(pre))) :
          Call(pre \o Fillers(k, now) \o post, k)

NextBulk == AdvanceBulk \/ FilterOne \/ FilterBulk

SpecBulk == Init /\ [][NextBulk]_vars

\* SpecPrice: check_price_alerts on one record
InitPrice ==
    /\ alert_history = <<>>
    /\ cooldown_period = CooldownMinutes
    /\ now = 0
    /\ calls = <<>>
    /\ stock_data \in PriceRecords
    /\ price_result = NoResult
    /\ indicators = NoSnapshot
    /\ tech_result = NoResult
    /\ stocks_data = <<>>
    /\ portfolio_result = NoResult
    /\ summary_input = <<>>
    /\ summary_result = NoSummary
    /\ ticks = [t \in Ticks |-> IdleTick]
    /\ running = 0
    /\ sent = {}
    /\ chat_id = TRUE
    /\ other_jobs = 0
    /\ worksheet = <<>>
    /\ reply = NoReply
    /\ bot_alert_history = <<>>
    /\ scheduler = NoScheduler

CheckPrice ==
    /\ ~price_result.returned
    /\ price_result' = check_price_alerts(stock_data, now)
    /\ UNCHANGED <<stock_data, dedupVars, techVars, portfolioVars, summaryVars, loopVars,
                   botVars>>

NextPrice == CheckPrice

SpecPrice == InitPrice /\ [][NextPrice]_vars

\* SpecTech: check_technical_alerts on one snapshot
InitTech ==
    /\ alert_history = <<>>
    /\ cooldown_period = CooldownMinutes
    /\ now = 0
    /\ calls = <<>>
    /\ stock_data = NoRecord
    /\ price_result = NoResult
    /\ indicators \in Snapshots
    /\ tech_result = NoResult
    /\ stocks_data = <<>>
    /\ portfolio_result = NoResult
    /\ summary_input = <<>>
    /\ summary_result = NoSummary
    /\ ticks = [t \in Ticks |-> IdleTick]
    /\ running = 0
    /\ sent = {}
    /\ chat_id = TRUE
    /\ other_jobs = 0
    /\ worksheet = <<>>
    /\ reply = NoReply
    /\ bot_alert_history = <<>>
    /\ scheduler = NoScheduler

CheckTechnical ==
    /\ ~tech_result.returned
    /\ tech_result' = check_technical_alerts(1, indicators, now)
    /\ UNCHANGED <<indicators, dedupVars, priceVars, portfolioVars, summaryVars, loopVars,
                   botVars>>

NextTech == CheckTechnical

SpecTech == InitTech /\ [][NextTech]_vars

\* SpecPortfolio: check_portfolio_alerts on one list of positions
InitPortfolio ==
    /\ alert_history = <<>>
    /\ cooldown_period = CooldownMinutes
    /\ now = 0
    /\ calls = <<>>
    /\ stock_data = NoRecord
    /\ price_result = NoResult
    /\ indicators = NoSnapshot
    /\ tech_result = NoResult
    /\ stocks_data \in SeqsUpTo(Positions, MaxPositions)
    /\ portfolio_result = NoResult
    /\ summary_input = <<>>
    /\ summary_result = NoSummary
    /\ ticks = [t \in Ticks |-> IdleTick]
    /\ running = 0
    /\ sent = {}
    /\ chat_id = TRUE
    /\ other_jobs = 0
    /\ worksheet = <<>>
    /\ reply = NoReply
    /\ bot_alert_history = <<>>
    /\ scheduler = NoScheduler

CheckPortfolio ==
    /\ ~portfolio_result.returned
    /\ portfolio_result' = check_portfolio_alerts(stocks_data, now)
    /\ UNCHANGED <<stocks_data, dedupVars, priceVars, techVars, summaryVars, loopVars, botVars>>

NextPortfolio == CheckPortfolio

SpecPortfolio == InitPortfolio /\ [][NextPortfolio]_vars

\* SpecSummary: get_alert_summary on one list of alerts
InitSummary ==
    /\ alert_history = <<>>
    /\ cooldown_period = CooldownMinutes
    /\ now = 0
    /\ calls = <<>>
    /\ stock_data = NoRecord
    /\ price_result = NoResult
    /\ indicators = NoSnapshot
    /\ tech_result = NoResult
    /\ stocks_data = <<>>
    /\ portfolio_result = NoResult
    /\ summary_input \in SeqsUpTo(EvaluatorAlerts, MaxSummaryAlerts)
    /\ summary_result = NoSummary
    /\ ticks = [t \in Ticks |-> IdleTick]
    /\ running = 0
    /\ sent = {}
    /\ chat_id = TRUE
    /\ other_jobs = 0
    /\ worksheet = <<>>
    /\ reply = NoReply
    /\ bot_alert_history = <<>>
    /\ scheduler = NoScheduler

Summarise ==
    /\ ~summary_result.returned
    /\ LET r == get_alert_summary(summary_input)
       IN  summary_result' = [text |-> r.text, raised |-> r.raised, returned |-> TRUE]
    /\ UNCHANGED <<summary_input, dedupVars, priceVars, techVars, portfolioVars, loopVars,
                   botVars>>

NextSummary == Summarise

SpecSummary == InitSummary /\ [][NextSummary]_vars

\* SpecLoop: two monitoring ticks, the clock and another job on one event loop
InitLoop ==
    /\ alert_history = <<>>
    /\ cooldown_period = CooldownMinutes
    /\ now = 0
    /\ calls = <<>>
    /\ stock_data = NoRecord
    /\ price_result = NoResult
    /\ indicators = NoSnapshot
    /\ tech_result = NoResult
    /\ stocks_data = <<>>
    /\ portfolio_result = NoResult
    /\ summary_input = <<>>
    /\ summary_result = NoSummary
    /\ ticks = [t \in Ticks |-> IdleTick]
    /\ running = 0
    /\ sent = {}
    /\ chat_id \in BOOLEAN
    /\ other_jobs = 0
    /\ worksheet = <<>>
    /\ reply = NoReply
    /\ bot_alert_history = <<>>
    /\ scheduler = NoScheduler

\* the wall clock moves on, whatever the loop is doing
Pass ==
    /\ now < MaxLoopTime * TimeStep
    /\ now' = now + TimeStep
    /\ UNCHANGED <<alert_history, cooldown_period, calls, evalVars, loopVars, botVars>>

\* the tick record after the evaluation of watch at the current time: an
\* exception leaving an evaluator ends the tick in the outer handler
Evaluated(tick, watch, timestamp) ==
    LET results == TickResults(watch, timestamp)
        failed == \E i \in 1..Len(results) : results[i].raised
    IN  [tick EXCEPT !.pc = IF failed THEN "done" ELSE "evaluated",
                     !.watch = watch, !.evaluated_at = timestamp,
                     !.all_alerts = IF failed THEN <<>> ELSE AllAlerts(results),
                     !.logged = \E i \in 1..Len(results) : results[i].logged,
                     !.failed = failed]

\* the evaluation with the candidates also written to alert_history
MonitorEvaluateRecording(t) ==
    /\ running = 0
    /\ ticks[t].pc = "idle"
    /\ \A u \in Ticks : u < t => ticks[u].pc # "idle"
    /\ \E watch \in Watchlists :
          /\ ticks' = [ticks EXCEPT ![t] = Evaluated(@, watch, now)]
          /\ alert_history' = alert_history \o ticks'[t].all_alerts
    /\ running' = IF ticks'[t].failed THEN 0 ELSE t
    /\ UNCHANGED <<cooldown_period, now, calls, evalVars, sent, chat_id, other_jobs, botVars>>

\* monitor_stocks up to the portfolio check: the scheduler starts the tick when
\* the loop is free, the ticks in the order of their numbers; after a failure
\* the error notification is awaited
MonitorEvaluate(t) ==
    /\ running = 0
    /\ ticks[t].pc = "idle"
    /\ \A u \in Ticks : u < t => ticks[u].pc # "idle"
    /\ \E watch \in Watchlists :
          ticks' = [ticks EXCEPT ![t] = Evaluated(@, watch, now)]
    /\ running' = IF ticks'[t].failed THEN 0 ELSE t
    /\ UNCHANGED <<dedupVars, evalVars, sent, chat_id, other_jobs, botVars>>

\* filter_duplicate_alerts reads the clock and gives up the loop
FilterBeginYielding(t) ==
    /\ running = t
    /\ ticks[t].pc = "evaluated"
    /\ ticks' = [ticks EXCEPT ![t] = [@ EXCEPT !.pc = "filtering", !.current_time = now]]
    /\ running' = 0
    /\ UNCHANGED <<dedupVars, evalVars, sent, chat_id, other_jobs, botVars>>

\* filter_duplicate_alerts is entered and reads the clock
FilterBegin(t) ==
    /\ running = t
    /\ ticks[t].pc = "evaluated"
    /\ ticks' = [ticks EXCEPT ![t] = [@ EXCEPT !.pc = "filtering", !.current_time = now]]
    /\ UNCHANGED <<dedupVars, evalVars, running, sent, chat_id, other_jobs, botVars>>

\* the loop over new_alerts and the truncation
FilterEnd(t) ==
    /\ running \in {0, t}
    /\ ticks[t].pc = "filtering"
    /\ LET r == filter_duplicate_alerts(ticks[t].all_alerts, alert_history,
                                        ticks[t].current_time, cooldown_period)
       IN  /\ alert_history' = r.history
           /\ calls' = Append(calls, [at |-> ticks[t].current_time,
                                      new_alerts |-> ticks[t].all_alerts,
                                      filtered_alerts |-> r.filtered,
                                      before |-> alert_history, bulk |-> 0])
           /\ ticks' = [ticks EXCEPT ![t] =
                 [@ EXCEPT !.pc = "filtered", !.before = alert_history,
                           !.filtered_alerts = r.filtered]]
    /\ running' = t
    /\ UNCHANGED <<cooldown_period, now, evalVars, sent, chat_id, other_jobs, botVars>>

\* SendBulkEnter with the HIGH alerts ahead of the CRITICAL ones
SendBulkEnterHighFirst(t) ==
    /\ running = t
    /\ ticks[t].pc = "filtered"
    /\ LET alerts == ticks[t].filtered_alerts
           critical_alerts == WithPriority(alerts, "CRITICAL")
           high_alerts == WithPriority(alerts, "HIGH")
           other_alerts == SelectSeq(alerts, LAMBDA a : a.priority \notin {"CRITICAL", "HIGH"})
       IN  IF alerts = <<>> \/ ~chat_id
           THEN /\ ticks' = [ticks EXCEPT ![t] = [@ EXCEPT !.pc = "done", !.handed = alerts]]
                /\ running' = 0
           ELSE /\ ticks' = [ticks EXCEPT ![t] =
                      [@ EXCEPT !.pc = "sending", !.handed = alerts,
                                !.pending = high_alerts \o critical_alerts,
                                !.other_alerts = other_alerts]]
                /\ running' = t
    /\ UNCHANGED <<dedupVars, evalVars, sent, chat_id, other_jobs, botVars>>

\* monitor_stocks hands the admitted alerts to send_bulk_alerts, which returns
\* at once without a chat id and groups the alerts otherwise
SendBulkEnter(t) ==
    /\ running = t
    /\ ticks[t].pc = "filtered"
    /\ LET alerts == ticks[t].filtered_alerts
           critical_alerts == WithPriority(alerts, "CRITICAL")
           high_alerts == WithPriority(alerts, "HIGH")
           other_alerts == SelectSeq(alerts, LAMBDA a : a.priority \notin {"CRITICAL", "HIGH"})
       IN  IF alerts = <<>> \/ ~chat_id
           THEN /\ ticks' = [ticks EXCEPT ![t] = [@ EXCEPT !.pc = "done", !.handed = alerts]]
                /\ running' = 0
           ELSE /\ ticks' = [ticks EXCEPT ![t] =
                      [@ EXCEPT !.pc = "sending", !.handed = alerts,
                                !.pending = critical_alerts \o high_alerts,
                                !.other_alerts = other_alerts]]
                /\ running' = t
    /\ UNCHANGED <<dedupVars, evalVars, sent, chat_id, other_jobs, botVars>>

\* one CRITICAL or HIGH alert: format_alert_message, then send_alert, whose
\* failure is logged, then asyncio.sleep; outbox holds the messages passed to
\* send_alert, in order
SendAlert(t) ==
    /\ running \in {0, t}
    /\ ticks[t].pc = "sending"
    /\ ticks[t].pending # <<>>
    /\ \E delivered \in BOOLEAN :
          LET message == format_alert_message(Head(ticks[t].pending))
          IN  /\ sent' = IF delivered THEN sent \cup {message} ELSE sent
              /\ ticks' = [ticks EXCEPT ![t] =
                    [@ EXCEPT !.pending = Tail(@), !.outbox = Append(@, message)]]
    /\ running' = 0
    /\ UNCHANGED <<dedupVars, evalVars, chat_id, other_jobs, botVars>>

\* the summary of the remaining alerts: an exception from get_alert_summary is
\* logged by send_bulk_alerts and nothing is sent
SendSummary(t) ==
    /\ running \in {0, t}
    /\ ticks[t].pc = "sending"
    /\ ticks[t].pending = <<>>
    /\ LET summary == get_alert_summary(ticks[t].other_alerts)
           message == [kind |-> "summary", text |-> summary.text]
           attempted == ticks[t].other_alerts # <<>> /\ ~summary.raised
       IN  /\ \E delivered \in BOOLEAN :
                 sent' = IF attempted /\ delivered THEN sent \cup {message} ELSE sent
           /\ ticks' = [ticks EXCEPT ![t] =
                 [@ EXCEPT !.pc = "done",
                           !.outbox = IF attempted THEN Append(@, message) ELSE @]]
    /\ running' = 0
    /\ UNCHANGED <<dedupVars, evalVars, chat_id, other_jobs, botVars>>

\* daily_summary on a watchlist that is not empty, as any job or command
\* handler that takes the loop between two awaits of a tick
DailySummary ==
    /\ running = 0
    /\ other_jobs < MaxOtherJobs
    /\ other_jobs' = other_jobs + 1
    /\ sent' = IF chat_id THEN sent \cup {[kind |-> "daily_summary"]} ELSE sent
    /\ UNCHANGED <<dedupVars, evalVars, ticks, running, chat_id, botVars>>

NextLoop ==
    \/ Pass
    \/ DailySummary
    \/ \E t \in Ticks :
          \/ MonitorEvaluate(t)
          \/ FilterBegin(t)
          \/ FilterEnd(t)
          \/ SendBulkEnter(t)
          \/ SendAlert(t)
          \/ SendSummary(t)

SpecLoop == InitLoop /\ [][NextLoop]_vars

----------------------------------------------------------------------------
\* One watched symbol through several monitoring ticks: each tick evaluates the
\* row at the clock reading and filters what the evaluators returned. No await
\* lies between the evaluation and the filter call of monitor_stocks, and a
\* tick is shorter than a step of the clock.

MaxWatchTime == 2
MaxWatchTicks == 2

\* a position bought at 80 with target 105 and stop loss 95
WatchRecord(current_price) ==
    [Stock_Symbol |-> 1, Current_Price |-> Number(current_price),
     Target_Price |-> Number(105), Stop_Loss |-> Number(95), Buy_Price |-> Number(80)]

\* on the stop loss, near it, near the target, on the target
WatchRecords == {WatchRecord(p) : p \in {95, 96, 100, 105}}

\* every rule group signals a buy
BullishSnapshot ==
    [rsi |-> Number(RsiOversold - 5), macd |-> Number(MacdMaxGap - 5),
     macd_signal |-> Number(0), bb_position |-> Number(BbLow - 3),
     ema_50 |-> Number(Scale + 1), ema_200 |-> Number(Scale), other |-> TRUE]

\* RSI and Bollinger signal a sell, MACD and EMA a buy
MixedSnapshot ==
    [BullishSnapshot EXCEPT !.rsi = Number(RsiOverbought + 5),
                            !.bb_position = Number(BbHigh)]

WatchSnapshots == {NoSnapshot, BullishSnapshot, MixedSnapshot}

WatchRows == {Row(stock, ind) : stock \in WatchRecords, ind \in WatchSnapshots}

AdvanceWatch == Tick(MaxWatchTime)

\* monitor_stocks on a watchlist of one row, up to the filter call
MonitorTick ==
    /\ Len(calls) < MaxWatchTicks
    /\ \E row \in WatchRows :
          LET results == TickResults(<<row>>, now)
              all_alerts == AllAlerts(results)
              r == filter_duplicate_alerts(all_alerts, alert_history, now, cooldown_period)
          IN  /\ stock_data' = row.stock
              /\ price_result' = results[1]
              /\ indicators' = row.indicators
              /\ tech_result' = IF IsEmpty(row.indicators) THEN NoResult ELSE results[2]
              /\ stocks_data' = <<row.stock>>
              /\ portfolio_result' = results[Len(results)]
              /\ alert_history' = r.history
              /\ calls' = Append(calls, [at |-> now, new_alerts |-> all_alerts,
                                         filtered_alerts |-> r.filtered,
                                         before |-> alert_history, bulk |-> 0])
    /\ UNCHANGED <<cooldown_period, now, summaryVars, loopVars, botVars>>

NextWatch == AdvanceWatch \/ MonitorTick

SpecWatch == Init /\ [][NextWatch]_vars

----------------------------------------------------------------------------

\* send_bulk_alerts on its own: task 1 holds a batch to hand over

MaxBatch == 3

\* alerts of the three evaluators: one CRITICAL, two HIGH, three MEDIUM, among
\* them the portfolio's
BatchAlerts ==
    UNION ({Range(check_price_alerts(WatchRecord(p), 0).alerts) : p \in {95, 96, 105}}
           \cup {Range(check_technical_alerts(2, ind, 0).alerts) :
                    ind \in {FailingSnapshot, MediumSnapshot}}
           \cup {Range(check_portfolio_alerts(
                           <<[Buy_Price |-> Number(100), Current_Price |-> Number(95)]>>,
                           0).alerts)})

InitSend ==
    /\ alert_history = <<>>
    /\ cooldown_period = CooldownMinutes
    /\ now = 0
    /\ calls = <<>>
    /\ stock_data = NoRecord
    /\ price_result = NoResult
    /\ indicators = NoSnapshot
    /\ tech_result = NoResult
    /\ stocks_data = <<>>
    /\ portfolio_result = NoResult
    /\ summary_input = <<>>
    /\ summary_result = NoSummary
    /\ sent = {}
    /\ chat_id \in BOOLEAN
    /\ other_jobs = 0
    /\ worksheet = <<>>
    /\ reply = NoReply
    /\ bot_alert_history = <<>>
    /\ scheduler = NoScheduler
    /\ \E batch \in SeqsUpTo(BatchAlerts, MaxBatch) :
          ticks = [t \in Ticks |->
                      IF t = 1
                      THEN [IdleTick EXCEPT !.pc = "filtered", !.filtered_alerts = batch]
                      ELSE IdleTick]
    /\ running = 1

NextSend == SendBulkEnter(1) \/ SendAlert(1) \/ SendSummary(1)

SpecSend == InitSend /\ [][NextSend]_vars

----------------------------------------------------------------------------

\* The chat commands on the position store

AddStockCommand ==
    /\ Len(worksheet) < MaxRows
    /\ \E request \in AddRequests, appended, sheet_ok \in BOOLEAN, price \in FetchedPrices :
          LET r == add_stock_command(worksheet, request, appended, price, sheet_ok)
          IN  /\ worksheet' = r.sheet
              /\ reply' = Reply("add_stock", request, r.kind, r.symbol, <<>>)
    /\ UNCHANGED <<dedupVars, evalVars, loopVars, bot_alert_history, scheduler>>

RemoveStockCommand ==
    /\ \E request \in RemoveRequests, found_ok, removed_ok \in BOOLEAN :
          LET r == remove_stock_command(worksheet, request, found_ok, removed_ok)
          IN  /\ worksheet' = r.sheet
              /\ reply' = Reply("remove_stock", request, r.kind, r.symbol, <<>>)
    /\ UNCHANGED <<dedupVars, evalVars, loopVars, bot_alert_history, scheduler>>

NextStore == AddStockCommand \/ RemoveStockCommand

SpecStore == Init /\ [][NextStore]_vars

----------------------------------------------------------------------------

\* The /alerts command between the monitoring ticks of one symbol

AlertsCommand ==
    /\ LET r == alerts_command(bot_alert_history)
       IN  reply' = Reply("alerts", NoRequest, r.kind, "", r.lines)
    /\ UNCHANGED <<dedupVars, evalVars, loopVars, worksheet, bot_alert_history, scheduler>>

NextChat == AdvanceWatch \/ MonitorTick \/ AlertsCommand

SpecChat == Init /\ [][NextChat]_vars

----------------------------------------------------------------------------

\* The scheduler from run() on: the clock moves when no job is due

InitSched ==
    /\ Init
    /\ scheduler = NoScheduler

\* run(): setup_scheduler(), then scheduler.start()
StartScheduler ==
    /\ ~scheduler.running
    /\ \E t \in StartTimes :
          /\ now' = t
          /\ scheduler' =
                [jobs |-> setup_scheduler, running |-> TRUE, started_at |-> t,
                 next_run |-> [id \in JobIds |->
                                  IF \E job \in setup_scheduler : job.id = id
                                  THEN FirstRun(CHOOSE job \in setup_scheduler : job.id = id, t)
                                  ELSE 0],
                 runs |-> [id \in JobIds |-> 0]]
    /\ UNCHANGED <<alert_history, cooldown_period, calls, evalVars, loopVars, worksheet,
                   reply, bot_alert_history>>

\* a job is due
Due(id) ==
    /\ \E job \in scheduler.jobs : job.id = id
    /\ scheduler.next_run[id] <= now

Minute ==
    /\ scheduler.running
    /\ now < scheduler.started_at + MaxSchedMinutes
    /\ \A id \in JobIds : ~Due(id)
    /\ now' = now + 1
    /\ UNCHANGED <<alert_history, cooldown_period, calls, evalVars, loopVars, botVars>>

\* the scheduler submits the coroutine of a due job to the event loop
JobFires(id) ==
    /\ scheduler.running
    /\ Due(id)
    /\ LET job == CHOOSE j \in scheduler.jobs : j.id = id
       IN  scheduler' =
              [scheduler EXCEPT !.next_run[id] = FollowingRun(job, @),
                                !.runs[id] = @ + 1]
    /\ UNCHANGED <<dedupVars, evalVars, loopVars, worksheet, reply, bot_alert_history>>

NextSched == StartScheduler \/ Minute \/ \E id \in JobIds : JobFires(id)

\* the process starts, its clock runs and a due job is fired
SpecSched ==
    /\ InitSched
    /\ [][NextSched]_vars
    /\ WF_vars(StartScheduler)
    /\ WF_vars(Minute)
    /\ WF_vars(\E id \in JobIds : JobFires(id))

----------------------------------------------------------------------------

\* What the claims speak of

\* the key of an alert
Key(alert) == <<alert.symbol, alert.type>>

\* the returned batches of the calls log[1..q], concatenated
RECURSIVE ReturnedUpTo(_, _)
ReturnedUpTo(log, q) ==
    IF q = 0 THEN <<>> ELSE ReturnedUpTo(log, q - 1) \o log[q].filtered_alerts

\* every alert admitted so far, in admission order
Admitted == ReturnedUpTo(calls, Len(calls))

\* the positions of the candidates of a batch that carry key k
WithKey(batch, k) == {i \in 1..Len(batch) : Key(batch[i]) = k}

\* the first candidate of a batch that carries key k (the batch has one)
FirstWithKey(batch, k) ==
    batch[CHOOSE i \in WithKey(batch, k) : \A j \in WithKey(batch, k) : i <= j]

Returned(call, alert) ==
    \E r \in 1..Len(call.filtered_alerts) : call.filtered_alerts[r] = alert

\* a is a subsequence of b: the elements of a are elements of b at
\* increasing positions
IsSubsequence(a, b) ==
    \E f \in [1..Len(a) -> 1..Len(b)] :
        /\ \A i \in 1..Len(a) : b[f[i]] = a[i]
        /\ \A i, j \in 1..Len(a) : i < j => f[i] < f[j]

----------------------------------------------------------------------------
\* C1: while alert_history holds an alert of key (symbol, type) whose timestamp
\* is less than 1 hour old, no candidate of that key is returned; a candidate
\* of a key that alert_history holds, offered more than 1 hour after the
\* timestamp of every alert of that key in it, is returned again.
C1_CooldownThenAgain ==
    \A q \in 1..Len(calls) :
        LET call == calls[q] IN
        \A h \in 1..Len(call.before) :
            LET first == call.before[h]
                same == {g \in 1..Len(call.before) : Key(call.before[g]) = Key(first)}
            IN  /\ call.at - first.timestamp < CooldownMinutes
                   => \A r \in 1..Len(call.filtered_alerts) :
                          Key(call.filtered_alerts[r]) # Key(first)
                /\ (/\ WithKey(call.new_alerts, Key(first)) # {}
                    /\ \A g \in same : call.at - call.before[g].timestamp > CooldownMinutes)
                   => Returned(call, FirstWithKey(call.new_alerts, Key(first)))

\* an alert is admitted, a second candidate of its key is offered within the
\* hour and not returned, a third is offered after more than 1 hour and returned
C1_Witness ==
    \E q1, q2, q3 \in 1..Len(calls) :
        /\ q1 < q2 /\ q2 < q3
        /\ Len(calls[q1].filtered_alerts) = 1
        /\ LET first == calls[q1].filtered_alerts[1] IN
            /\ WithKey(calls[q2].new_alerts, Key(first)) # {}
            /\ calls[q2].at - first.timestamp < CooldownMinutes
            /\ calls[q2].filtered_alerts = <<>>
            /\ calls[q3].before = <<first>>
            /\ calls[q3].at - first.timestamp > CooldownMinutes
            /\ WithKey(calls[q3].filtered_alerts, Key(first)) # {}

\* C2: between calls alert_history is exactly the most recent min(100, n) of
\* the n alerts admitted so far, in admission order (so never above 100, and
\* the oldest admitted are the ones evicted).
C2_HistoryIsLastAdmitted ==
    LET n == Len(Admitted)
        m == Min(HistoryKeep, n)
    IN  /\ Len(alert_history) = m
        /\ \A i \in 1..m : alert_history[i] = Admitted[n - m + i]

\* more than 100 alerts were admitted, and the evicted first one is still
\* within its cooldown
C2_Witness ==
    /\ Len(Admitted) > HistoryKeep
    /\ Len(alert_history) = HistoryKeep
    /\ alert_history[1] = Admitted[Len(Admitted) - HistoryKeep + 1]
    /\ now - Admitted[1].timestamp < CooldownMinutes
    /\ \A i \in 1..Len(alert_history) : alert_history[i] # Admitted[1]

\* C3: a call whose candidates all carry timestamps less than 1 hour before
\* the call returns no two alerts with the same (symbol, type).
C3_NoRepeatInBatch ==
    \A q \in 1..Len(calls) :
        LET call == calls[q] IN
        (\A i \in 1..Len(call.new_alerts) :
             call.at - call.new_alerts[i].timestamp < CooldownMinutes)
        => \A i, j \in 1..Len(call.filtered_alerts) :
               i # j => Key(call.filtered_alerts[i]) # Key(call.filtered_alerts[j])

\* a call admitted more than 100 alerts and then suppressed a candidate whose
\* key it had admitted first
C3_Witness ==
    \E q \in 1..Len(calls) :
        LET call == calls[q]
            last == call.new_alerts[Len(call.new_alerts)]
        IN  /\ \A i \in 1..Len(call.new_alerts) :
                   call.at - call.new_alerts[i].timestamp < CooldownMinutes
            /\ Len(call.filtered_alerts) > HistoryKeep
            /\ call.before = <<>>
            /\ Key(call.new_alerts[1]) = Key(last)
            /\ Key(call.filtered_alerts[1]) = Key(last)
            /\ Len(call.filtered_alerts) = Len(call.new_alerts) - 1

\* C4: the returned batch is a subsequence of the input batch.
C4_ReturnedIsSubsequence ==
    \A q \in 1..Len(calls) :
        IsSubsequence(calls[q].filtered_alerts, calls[q].new_alerts)

\* a call returned its first and third candidate and dropped the second
C4_Witness ==
    \E q \in 1..Len(calls) :
        LET call == calls[q] IN
        /\ Len(call.new_alerts) = 3
        /\ call.new_alerts[1] # call.new_alerts[3]
        /\ call.filtered_alerts = <<call.new_alerts[1], call.new_alerts[3]>>

\* C5: when an alert of key K was admitted and at least 100 further alerts were
\* admitted after it before a call, and none of the last 100 admitted carries
\* key K, a candidate of key K offered in that call is returned although less
\* than 1 hour has passed since the first one's timestamp.
C5_EvictedFiresAgain ==
    \A q \in 1..Len(calls) :
        LET call == calls[q]
            earlier == ReturnedUpTo(calls, q - 1)
            n == Len(earlier)
        IN  \A p \in 1..n :
                (/\ n - p >= HistoryKeep
                 /\ call.at - earlier[p].timestamp < CooldownMinutes
                 /\ \A i \in (n - HistoryKeep + 1)..n : Key(earlier[i]) # Key(earlier[p])
                 /\ WithKey(call.new_alerts, Key(earlier[p])) # {})
                => Returned(call, FirstWithKey(call.new_alerts, Key(earlier[p])))

\* such a call has happened
C5_Witness ==
    \E q \in 1..Len(calls) :
        LET call == calls[q]
            earlier == ReturnedUpTo(calls, q - 1)
            n == Len(earlier)
        IN  /\ n > HistoryKeep
            /\ call.at - earlier[1].timestamp < CooldownMinutes
            /\ \A i \in (n - HistoryKeep + 1)..n : Key(earlier[i]) # Key(earlier[1])
            /\ WithKey(call.new_alerts, Key(earlier[1])) # {}
            /\ Returned(call, FirstWithKey(call.new_alerts, Key(earlier[1])))

----------------------------------------------------------------------------
\* The price claims speak of the record evaluated and of what was returned

current == Float(stock_data.Current_Price)
target == Float(stock_data.Target_Price)
stop == Float(stock_data.Stop_Loss)

\* all four prices are numbers other than zero
AllNonZero ==
    \A cell \in {stock_data.Current_Price, stock_data.Target_Price,
                  stock_data.Stop_Loss, stock_data.Buy_Price} :
        cell.tag = "number" /\ cell.value # 0

\* one of the four prices is zero or missing
SomeZeroOrMissing ==
    \E cell \in {stock_data.Current_Price, stock_data.Target_Price,
                  stock_data.Stop_Loss, stock_data.Buy_Price} :
        cell.tag = "missing" \/ (cell.tag = "number" /\ cell.value = 0)

\* the positions of the returned alerts of a type, and of a type and priority
OfType(type) ==
    {i \in 1..Len(price_result.alerts) : price_result.alerts[i].type = type}
OfTypeAndPriority(type, priority) ==
    {i \in OfType(type) : price_result.alerts[i].priority = priority}

InTargetBand == TargetBufferPct * target <= Scale * current /\ current < target
InStopBand == stop < current /\ Scale * current <= StopBufferPct * stop

\* C6: with all four prices non-zero and currentPrice >= targetPrice, exactly
\* one alert of type TARGET_HIT is returned; it has priority HIGH and trigger
\* price targetPrice (so there is no approaching-target alert).
C6_TargetHit ==
    (price_result.returned /\ AllNonZero /\ current >= target)
    => /\ Cardinality(OfType(TARGET_HIT)) = 1
       /\ \A i \in OfType(TARGET_HIT) :
              /\ price_result.alerts[i].priority = "HIGH"
              /\ price_result.alerts[i].trigger_price = Scale * target
              /\ price_result.alerts[i].message = "TARGET HIT"

\* the target was hit inside the approaching-stop band: two alerts
C6_Witness ==
    /\ price_result.returned /\ AllNonZero /\ current >= target
    /\ Len(price_result.alerts) = 2
    /\ OfTypeAndPriority(TARGET_HIT, "HIGH") # {}

\* C7 as stated: with all four prices non-zero and currentPrice <= stopLoss,
\* exactly one alert of type STOP_LOSS is returned, with priority CRITICAL and
\* trigger price stopLoss.
C7_Original ==
    (price_result.returned /\ AllNonZero /\ current <= stop)
    => /\ Cardinality(OfType(STOP_LOSS)) = 1
       /\ \A i \in OfType(STOP_LOSS) :
              /\ price_result.alerts[i].priority = "CRITICAL"
              /\ price_result.alerts[i].trigger_price = Scale * stop

\* C7 amended: the same when moreover currentPrice < targetPrice (the target
\* rule comes first and the stop-loss rule is its elif).
C7_StopLossBelowTarget ==
    (price_result.returned /\ AllNonZero /\ current <= stop /\ current < target)
    => /\ Cardinality(OfType(STOP_LOSS)) = 1
       /\ \A i \in OfType(STOP_LOSS) :
              /\ price_result.alerts[i].priority = "CRITICAL"
              /\ price_result.alerts[i].trigger_price = Scale * stop

\* the price sits on the stop loss, below the target
C7_Witness ==
    /\ price_result.returned /\ AllNonZero /\ current = stop /\ current < target
    /\ OfTypeAndPriority(STOP_LOSS, "CRITICAL") # {}

\* C8: with all four prices non-zero and targetPrice * 0.95 <= currentPrice <
\* targetPrice, an approaching-target alert of priority MEDIUM is returned and
\* no HIGH target-hit alert, whether or not the stop-loss rule fired.
C8_ApproachingTarget ==
    (price_result.returned /\ AllNonZero /\ InTargetBand)
    => /\ \E i \in OfTypeAndPriority(TARGET_HIT, "MEDIUM") :
              price_result.alerts[i].message = "APPROACHING TARGET"
       /\ OfTypeAndPriority(TARGET_HIT, "HIGH") = {}

\* the stop-loss rule fired for a price in the approaching-target band
C8_Witness ==
    /\ price_result.returned /\ AllNonZero /\ InTargetBand /\ current <= stop
    /\ OfTypeAndPriority(STOP_LOSS, "CRITICAL") # {}
    /\ OfTypeAndPriority(TARGET_HIT, "MEDIUM") # {}

\* C9 as stated: with all four prices non-zero and stopLoss < currentPrice <=
\* stopLoss * 1.05, an approaching-stop alert of priority MEDIUM is returned,
\* whatever the other rules did.
C9_Original ==
    (price_result.returned /\ AllNonZero /\ InStopBand)
    => \E i \in OfTypeAndPriority(STOP_LOSS, "MEDIUM") :
           price_result.alerts[i].message = "APPROACHING STOP LOSS"

\* C9 amended: the same when the price is not in the approaching-target band
\* (the approaching-stop rule is the elif of the approaching-target rule);
\* the target-hit rule does not matter.
C9_ApproachingStopUnlessTargetBand ==
    (price_result.returned /\ AllNonZero /\ InStopBand /\ ~InTargetBand)
    => \E i \in OfTypeAndPriority(STOP_LOSS, "MEDIUM") :
           price_result.alerts[i].message = "APPROACHING STOP LOSS"

\* the price sits on stopLoss * 1.05 and the target-hit rule fired as well
C9_Witness ==
    /\ price_result.returned /\ AllNonZero /\ ~InTargetBand
    /\ stop < current /\ Scale * current = StopBufferPct * stop
    /\ OfTypeAndPriority(TARGET_HIT, "HIGH") # {}
    /\ OfTypeAndPriority(STOP_LOSS, "MEDIUM") # {}

\* C10: when one of the four prices is zero or missing, the empty list is
\* returned and nothing is raised.
C10_IncompleteData ==
    (price_result.returned /\ SomeZeroOrMissing)
    => price_result.alerts = <<>> /\ ~price_result.raised

\* the buy price alone is missing, for a price in the approaching-target band
C10_Witness ==
    /\ price_result.returned
    /\ stock_data.Buy_Price = Missing
    /\ stock_data.Current_Price.tag = "number" /\ stock_data.Target_Price.tag = "number"
    /\ stock_data.Stop_Loss.tag = "number" /\ stop # 0
    /\ InTargetBand
    /\ price_result.alerts = <<>> /\ ~price_result.logged

----------------------------------------------------------------------------
\* Claims about check_technical_alerts (SpecTech)

\* the alerts of the result that carry the given indicator name
DrivenBy(indicator) ==
    SelectSeq(tech_result.alerts, LAMBDA a : a.indicator = indicator)

\* no cell of the snapshot is non-numeric
AllNumeric ==
    \A f \in {"rsi", "macd", "macd_signal", "bb_position", "ema_50", "ema_200"} :
        indicators[f].tag # "text"

\* C11: for a non-empty snapshot with a numeric rsi (50 when the key is absent),
\* rsi <= 25 gives exactly one RSI alert, TECHNICAL_BUY with priority HIGH;
\* rsi >= 75 gives exactly one RSI alert, TECHNICAL_SELL with priority HIGH;
\* 25 < rsi < 75 gives no RSI alert.
C11_RsiThresholds ==
    (tech_result.returned /\ ~IsEmpty(indicators) /\ indicators.rsi.tag # "text")
    => LET rsi == IF indicators.rsi.tag = "missing" THEN 50 ELSE indicators.rsi.value
           driven == DrivenBy("RSI")
       IN  /\ rsi <= 25 => /\ Len(driven) = 1
                           /\ driven[1].type = TECHNICAL_BUY
                           /\ driven[1].priority = "HIGH"
           /\ rsi >= 75 => /\ Len(driven) = 1
                           /\ driven[1].type = TECHNICAL_SELL
                           /\ driven[1].priority = "HIGH"
           /\ (25 < rsi /\ rsi < 75) => driven = <<>>

\* an RSI of exactly 75 has produced its sell alert next to another group's alert
C11_Witness ==
    /\ tech_result.returned
    /\ indicators.rsi = Number(75)
    /\ Len(tech_result.alerts) > 1
    /\ tech_result.alerts[1].type = TECHNICAL_SELL
    /\ tech_result.alerts[1].indicator = "RSI"

\* the snapshot that keeps only the given keys of indicators (and stays non-empty)
OnlyKeys(keys) ==
    [f \in DOMAIN indicators |->
        IF f = "other" THEN TRUE
        ELSE IF f \in keys THEN indicators[f] ELSE Missing]

\* what one rule group yields on its own
GroupAlone(keys) == check_technical_alerts(1, OnlyKeys(keys), now).alerts

\* the MACD condition and the EMA condition of the snapshot, in hundredths
MacdCondition ==
    LET macd == IF indicators.macd.tag = "missing" THEN 0 ELSE indicators.macd.value
        macd_signal == IF indicators.macd_signal.tag = "missing" THEN 0
                       ELSE indicators.macd_signal.value
    IN  macd > macd_signal /\ macd - macd_signal < 10
EmaCondition ==
    LET ema_50 == IF indicators.ema_50.tag = "missing" THEN 0 ELSE indicators.ema_50.value
        ema_200 == indicators.ema_200.value
    IN  ema_50 > ema_200 /\ 100 * (ema_50 - ema_200) < 2 * ema_200

\* C12: for a non-empty snapshot with numeric fields and ema_200 > 0 the result
\* is the concatenation, in the order RSI, MACD, Bollinger, EMA, of what each
\* rule group yields on its own, at most one alert per group; bb_position 0.02
\* with rsi 60 and no MACD or EMA condition gives exactly one alert,
\* TECHNICAL_BUY with priority MEDIUM.
C12_GroupsIndependent ==
    (/\ tech_result.returned /\ ~IsEmpty(indicators) /\ AllNumeric
     /\ indicators.ema_200.tag = "number" /\ indicators.ema_200.value > 0)
    => /\ tech_result.alerts =
             GroupAlone({"rsi"}) \o GroupAlone({"macd", "macd_signal"})
                \o GroupAlone({"bb_position"}) \o GroupAlone({"ema_50", "ema_200"})
       /\ \A keys \in {{"rsi"}, {"macd", "macd_signal"}, {"bb_position"},
                       {"ema_50", "ema_200"}} : Len(GroupAlone(keys)) <= 1
       /\ Len(tech_result.alerts) <= 4
       /\ (/\ indicators.bb_position = Number(2) /\ indicators.rsi = Number(60)
           /\ ~MacdCondition /\ ~EmaCondition)
          => /\ Len(tech_result.alerts) = 1
             /\ tech_result.alerts[1].type = TECHNICAL_BUY
             /\ tech_result.alerts[1].priority = "MEDIUM"

\* all four groups have fired in one call
C12_Witness ==
    /\ tech_result.returned /\ AllNumeric
    /\ indicators.ema_200.tag = "number" /\ indicators.ema_200.value > 0
    /\ Len(tech_result.alerts) = 4
    /\ tech_result.alerts[2].indicator = "MACD"
    /\ tech_result.alerts[4].indicator = "EMA Cross"

\* C15: when an exception occurs inside check_technical_alerts (a non-numeric
\* macd, or ema_200 = 0 with ema_50 > 0), the call returns no alerts at all,
\* including none from the rules evaluated before the failure.
C15_NoAlertsOnException ==
    (tech_result.returned /\ tech_result.logged) => tech_result.alerts = <<>>

----------------------------------------------------------------------------
\* Claims about check_portfolio_alerts (SpecPortfolio)

\* the records with a positive buy price and a positive current price
ValidPositions ==
    {i \in 1..Len(stocks_data) :
        /\ stocks_data[i].Buy_Price.tag = "number" /\ stocks_data[i].Buy_Price.value > 0
        /\ stocks_data[i].Current_Price.tag = "number"
        /\ stocks_data[i].Current_Price.value > 0}

\* P&L of record i in percent
PnlOf(i) ==
    (100 * (stocks_data[i].Current_Price.value - stocks_data[i].Buy_Price.value))
        \div stocks_data[i].Buy_Price.value

RECURSIVE SumPnl(_)
SumPnl(S) == IF S = {} THEN 0 ELSE LET i == CHOOSE j \in S : TRUE
                                   IN  PnlOf(i) + SumPnl(S \ {i})

Winners == {i \in ValidPositions : PnlOf(i) > 0}

\* avgPnl <= -10 and winRate < 30 with both taken over all records
AvgLossOverAll == SumPnl(ValidPositions) <= (0 - 10) * Len(stocks_data)
LowWinRate == 100 * Cardinality(Winners) < 30 * Len(stocks_data)

IsPortfolioLoss(alert) == alert.type = PORTFOLIO_LOSS /\ alert.priority = "HIGH"
IsLowWinrate(alert) == alert.type = LOW_WINRATE /\ alert.priority = "MEDIUM"

\* C13: check_portfolio_alerts returns at most one alert: portfolio_loss with
\* priority HIGH when avgPnl <= -10, otherwise low_winrate with priority MEDIUM
\* when winRate < 30, otherwise none; the two never come together, and
\* portfolio_loss wins when both conditions hold (buy 100 / current 80 and
\* buy 100 / current 82).
C13_AtMostOnePortfolioAlert ==
    portfolio_result.returned
    => LET alerts == portfolio_result.alerts
       IN  /\ Len(alerts) <= 1
           /\ stocks_data = <<>> => alerts = <<>>
           /\ (stocks_data # <<>> /\ AvgLossOverAll)
              => Len(alerts) = 1 /\ IsPortfolioLoss(alerts[1])
           /\ (stocks_data # <<>> /\ ~AvgLossOverAll /\ LowWinRate)
              => Len(alerts) = 1 /\ IsLowWinrate(alerts[1])
           /\ (stocks_data # <<>> /\ ~AvgLossOverAll /\ ~LowWinRate) => alerts = <<>>
           /\ stocks_data = <<[Buy_Price |-> Number(100), Current_Price |-> Number(80)],
                              [Buy_Price |-> Number(100), Current_Price |-> Number(82)]>>
              => Len(alerts) = 1 /\ IsPortfolioLoss(alerts[1])

\* both conditions hold and only the portfolio_loss alert came back
C13_Witness ==
    /\ portfolio_result.returned
    /\ Len(stocks_data) = 2
    /\ AvgLossOverAll /\ LowWinRate
    /\ Len(portfolio_result.alerts) = 1
    /\ IsPortfolioLoss(portfolio_result.alerts[1])

\* C14: records with a non-positive buy or current price are not counted in the
\* denominator of the average, so the portfolio_loss alert fires exactly when
\* the sum of the valid records' P&L divided by their number is <= -10.
C14_AverageOverValidRecords ==
    (portfolio_result.returned /\ ValidPositions # {})
    => ((\E i \in 1..Len(portfolio_result.alerts) :
            portfolio_result.alerts[i].type = PORTFOLIO_LOSS)
        <=> SumPnl(ValidPositions) <= (0 - 10) * Cardinality(ValidPositions))

----------------------------------------------------------------------------
\* Claims about get_alert_summary (SpecSummary)

\* the lines of the summary that name an alert
AlertLines == SelectSeq(summary_result.text, LAMBDA l : l.kind = "line")

\* the alerts of summary_input in the order CRITICAL, HIGH, MEDIUM
ByPriority ==
    SelectSeq(summary_input, LAMBDA a : a.priority = "CRITICAL")
    \o SelectSeq(summary_input, LAMBDA a : a.priority = "HIGH")
    \o SelectSeq(summary_input, LAMBDA a : a.priority = "MEDIUM")

\* the type with its underscores turned into spaces and its words capitalised
Titled(type) ==
    CASE type = "target_hit" -> "Target Hit"
      [] type = "stop_loss" -> "Stop Loss"
      [] type = "technical_buy" -> "Technical Buy"
      [] type = "technical_sell" -> "Technical Sell"
      [] type = "portfolio_loss" -> "Portfolio Loss"
      [] type = "low_winrate" -> "Low Winrate"

\* C17: for every list of alerts the three evaluators produce (portfolio alerts
\* included) get_alert_summary never raises and returns one line per CRITICAL,
\* HIGH or MEDIUM alert, grouped in that order, each naming the alert's symbol;
\* for the empty list it returns "No alerts at this time.".
C17_SummaryOfEvaluatorAlerts ==
    summary_result.returned
    => /\ ~summary_result.raised
       /\ summary_input = <<>> => summary_result.text = <<[kind |-> "none"]>>
       /\ summary_input # <<>>
          => /\ Len(AlertLines) = Len(ByPriority)
             /\ \A i \in 1..Len(AlertLines) :
                   /\ AlertLines[i].symbol = ByPriority[i].symbol
                   /\ AlertLines[i].text = Titled(ByPriority[i].type)

----------------------------------------------------------------------------
\* Claims about a monitoring tick (SpecLoop)

\* the ticks whose evaluation is over
EvaluatedTicks == {t \in Ticks : ticks[t].pc # "idle"}

\* the ticks whose filter call is over
FilteredTicks == {t \in Ticks : ticks[t].pc \in {"filtered", "sending", "done"}
                                /\ ~ticks[t].failed}

\* what the evaluators return for row i of tick t, taken on its own
RowAlone(t, i) ==
    LET row == ticks[t].watch[i]
        at == ticks[t].evaluated_at
    IN  check_price_alerts(row.stock, at).alerts
        \o check_technical_alerts(row.stock.Stock_Symbol, row.indicators, at).alerts

\* an evaluation of row i of tick t ended in the evaluator's handler
RowFailed(t, i) ==
    LET row == ticks[t].watch[i]
        at == ticks[t].evaluated_at
    IN  \/ check_price_alerts(row.stock, at).logged
        \/ check_technical_alerts(row.stock.Stock_Symbol, row.indicators, at).logged

\* alert is suppressed by the history the filter call of tick t started with, or
\* by an earlier candidate of the same batch
Suppressed(t, alert) ==
    LET same(h) == h.symbol = alert.symbol /\ h.type = alert.type
                   /\ ticks[t].current_time - h.timestamp < cooldown_period
    IN  \/ \E i \in 1..Len(ticks[t].before) : same(ticks[t].before[i])
        \/ \E i \in 1..Len(ticks[t].all_alerts) :
              ticks[t].all_alerts[i] # alert /\ same(ticks[t].all_alerts[i])

\* C16: the three evaluators never raise and always return a list, and in a
\* tick a failed evaluation of one symbol does not keep the alerts of the other
\* symbols from being evaluated, passed through filter_duplicate_alerts and
\* handed to send_bulk_alerts.
C16_FailuresAreIsolated ==
    \A t \in EvaluatedTicks :
       /\ ~ticks[t].failed
       /\ LET portfolio == check_portfolio_alerts(
                              [i \in 1..Len(ticks[t].watch) |-> ticks[t].watch[i].stock],
                              ticks[t].evaluated_at)
          IN  portfolio.returned /\ ~portfolio.raised
       /\ \A i \in 1..Len(ticks[t].watch) :
             LET row == ticks[t].watch[i]
                 price == check_price_alerts(row.stock, ticks[t].evaluated_at)
                 tech == check_technical_alerts(row.stock.Stock_Symbol, row.indicators,
                                                ticks[t].evaluated_at)
                 alone == Range(price.alerts \o tech.alerts)
             IN  /\ price.returned /\ ~price.raised
                 /\ tech.returned /\ ~tech.raised
                 /\ alone \subseteq Range(ticks[t].all_alerts)
                 /\ t \in FilteredTicks
                    => \A alert \in alone :
                          \/ alert \in Range(ticks[t].filtered_alerts)
                          \/ Suppressed(t, alert)
       /\ ticks[t].pc \in {"sending", "done"} => ticks[t].handed = ticks[t].filtered_alerts

\* the first symbol's evaluations failed and the second symbol's alert was
\* handed to send_bulk_alerts
C16_Witness ==
    \E t \in Ticks :
       /\ ticks[t].pc \in {"sending", "done"}
       /\ RowFailed(t, 1) /\ ~RowFailed(t, 2)
       /\ RowAlone(t, 2) # <<>>
       /\ Range(RowAlone(t, 2)) \subseteq Range(ticks[t].handed)

\* alert was delivered: in a message of its own when its priority is CRITICAL
\* or HIGH, as a line of a summary otherwise
Delivered(alert) ==
    IF alert.priority \in {"CRITICAL", "HIGH"}
    THEN \E m \in sent : /\ m.kind = "alert"
                         /\ m.symbol = alert.symbol /\ m.type = alert.type
                         /\ m.timestamp = alert.timestamp /\ m.message = alert.message
    ELSE \E m \in sent : /\ m.kind = "summary"
                         /\ \E i \in 1..Len(m.text) :
                               /\ m.text[i].kind = "line"
                               /\ m.text[i].symbol = alert.symbol

\* C18: after a tick every alert appended to alert_history has been sent by
\* send_bulk_alerts, also without a chat id, after a failed send, or with a
\* MEDIUM portfolio alert in the batch.
C18_HistoryHoldsDeliveredAlerts ==
    (\A t \in Ticks : ticks[t].pc \in {"idle", "done"})
    => \A i \in 1..Len(alert_history) : Delivered(alert_history[i])

\* a step of an evaluator or of a renderer: the evaluation of a tick
\* (check_price_alerts, check_technical_alerts, check_portfolio_alerts), the
\* message of one alert (format_alert_message), the summary (get_alert_summary)
EvaluatorOrRendererStep ==
    \E t \in Ticks : MonitorEvaluate(t) \/ SendAlert(t) \/ SendSummary(t)

\* C19: check_price_alerts, check_technical_alerts, check_portfolio_alerts,
\* format_alert_message and get_alert_summary leave alert_history and
\* cooldown_period unchanged, also on inputs on which they log an error.
C19_OnlyFilterMutatesHistory ==
    [][EvaluatorOrRendererStep => UNCHANGED <<alert_history, cooldown_period>>]_vars

\* with alerts already in the history, a tick has evaluated rows on which the
\* evaluators logged an error, and a summary that raised has been passed by
C19_Witness ==
    /\ alert_history # <<>>
    /\ \E t \in Ticks : ticks[t].pc = "evaluated" /\ ticks[t].logged
    /\ \E t \in Ticks : /\ ticks[t].pc = "done"
                        /\ get_alert_summary(ticks[t].other_alerts).raised

\* no two filter_duplicate_alerts executions overlap, and from the start of a
\* tick's evaluation to the end of its filter call the tick holds the loop
FilterCallsSerialized ==
    /\ \A t1, t2 \in Ticks :
          ticks[t1].pc = "filtering" /\ ticks[t2].pc = "filtering" => t1 = t2
    /\ \A t \in Ticks : ticks[t].pc \in {"evaluated", "filtering", "filtered"} => running = t

\* C20 as stated: no two filter executions overlap, and no (symbol, type) is
\* admitted by two ticks whose filter calls are less than one cooldown period
\* apart.
C20_Original ==
    /\ FilterCallsSerialized
    /\ \A p, q \in 1..Len(calls) :
          p < q =>
             \A a \in Range(calls[p].filtered_alerts) :
             \A b \in Range(calls[q].filtered_alerts) :
                Key(a) = Key(b) => calls[q].at - calls[p].at >= cooldown_period

\* C20: for every interleaving of the ticks and the other jobs at await points,
\* no two filter executions overlap, and no tick admits a (symbol, type) of which
\* alert_history holds, when the tick's filter call starts, an entry stamped
\* less than one cooldown period before the call's clock reading.
C20_SerializedDedup ==
    /\ FilterCallsSerialized
    /\ \A q \in 1..Len(calls) :
          \A b \in Range(calls[q].filtered_alerts) :
             \A i \in 1..Len(calls[q].before) :
                Key(calls[q].before[i]) = Key(b)
                => calls[q].at - calls[q].before[i].timestamp >= cooldown_period

\* a second tick ran its evaluation and filter while the first was suspended in
\* its sends, after another job had used the loop, and the filter suppressed a
\* key the first tick had admitted
C20_Witness ==
    /\ Len(calls) = 2
    /\ other_jobs > 0
    /\ \E t \in Ticks : ticks[t].pc = "sending"
    /\ \E a \in Range(calls[1].filtered_alerts) :
       \E b \in Range(calls[2].new_alerts) :
          /\ Key(a) = Key(b)
          /\ b \notin Range(calls[2].filtered_alerts)

----------------------------------------------------------------------------
\* C24: check_price_alerts never returns both a target-hit alert (TARGET_HIT,
\* HIGH) and a stop-loss-hit alert (STOP_LOSS, CRITICAL) for one record; when
\* currentPrice >= targetPrice and currentPrice <= stopLoss both hold, the
\* target-hit alert alone is returned.
C24_NeverBothHits ==
    price_result.returned
    => /\ ~(/\ OfTypeAndPriority(TARGET_HIT, "HIGH") # {}
            /\ OfTypeAndPriority(STOP_LOSS, "CRITICAL") # {})
       /\ (AllNonZero /\ current >= target /\ current <= stop)
          => /\ Cardinality(OfTypeAndPriority(TARGET_HIT, "HIGH")) = 1
             /\ OfTypeAndPriority(STOP_LOSS, "CRITICAL") = {}

\* a record whose target lies below its stop loss, priced between the two
C24_Witness ==
    /\ price_result.returned /\ AllNonZero
    /\ target < stop /\ current >= target /\ current <= stop
    /\ OfTypeAndPriority(TARGET_HIT, "HIGH") # {}

----------------------------------------------------------------------------
\* The cooldown of a key, told from its last admitted alert

\* alert_history as call q left it
HistoryAfter(q) == IF q < Len(calls) THEN calls[q + 1].before ELSE alert_history

\* the alert of key k admitted last (history holds one)
LastAdmitted(history, k) ==
    history[CHOOSE i \in WithKey(history, k) : \A j \in WithKey(history, k) : j <= i]

\* a candidate is admitted when no alert of its key was admitted before or
\* when the call is at least one cooldown after the last one's timestamp
AdmittedAgain(alert, history, at) ==
    \/ WithKey(history, Key(alert)) = {}
    \/ at - LastAdmitted(history, Key(alert)).timestamp >= CooldownMinutes

\* the batch walked in order, on st = [out, history]: an admitted candidate is
\* returned and recorded, a suppressed one changes nothing
RECURSIVE FromLastAdmitted(_, _, _, _)
FromLastAdmitted(batch, i, st, at) ==
    IF i > Len(batch) THEN st
    ELSE FromLastAdmitted(batch, i + 1,
             IF AdmittedAgain(batch[i], st.history, at)
             THEN [out |-> Append(st.out, batch[i]),
                   history |-> Append(st.history, batch[i])]
             ELSE st,
             at)

\* C25: a suppressed candidate leaves alert_history unchanged, so that the
\* cooldown of a key runs from the timestamp of its last admitted alert: a
\* candidate is admitted exactly when no alert of its key was admitted before
\* or the call is at least 1 hour after the last admitted one's timestamp,
\* and alert_history grows by the admitted candidates only (no truncation).
C25_CooldownFromLastAdmitted ==
    \A q \in 1..Len(calls) :
        LET call == calls[q]
            walk == FromLastAdmitted(call.new_alerts, 1,
                                     [out |-> <<>>, history |-> call.before], call.at)
        IN  Len(call.before) + Len(call.new_alerts) <= HistoryKeep
            => /\ call.filtered_alerts = walk.out
               /\ HistoryAfter(q) = call.before \o call.filtered_alerts
               /\ HistoryAfter(q) = walk.history

\* the same condition on three ticks half an hour apart: admitted, suppressed
\* with alert_history left as it was, admitted again one hour after the first
C25_Witness ==
    \E q \in 1..Len(calls) :
        /\ q + 2 <= Len(calls)
        /\ \A p \in q..(q + 2) : Len(calls[p].new_alerts) = 1
        /\ \A p \in q..(q + 2) : Key(calls[p].new_alerts[1]) = Key(calls[q].new_alerts[1])
        /\ \A p \in q..(q + 2) : calls[p].new_alerts[1].timestamp = calls[p].at
        /\ calls[q + 1].at = calls[q].at + TimeStep
        /\ calls[q + 2].at = calls[q].at + CooldownMinutes
        /\ calls[q].filtered_alerts = calls[q].new_alerts
        /\ calls[q + 1].filtered_alerts = <<>>
        /\ HistoryAfter(q + 1) = calls[q + 1].before
        /\ calls[q + 2].filtered_alerts = calls[q + 2].new_alerts

----------------------------------------------------------------------------
\* C30: filter_duplicate_alerts suppresses a candidate only if alert_history,
\* with the entries admitted earlier in the same call, holds an entry of the
\* same symbol and the same type whose timestamp is less than 1 hour before
\* the call time; entries past the cooldown cause no suppression, and stay in
\* alert_history (no truncation).

\* <<filtered_alerts, alert_history>> as candidate i of call q finds them
FoundBy(q, i) ==
    FilterLoop(1, i - 1, calls[q].new_alerts, <<(<<>>), calls[q].before>>,
               calls[q].at, CooldownMinutes)

\* candidate i of call q was not returned
SuppressedAt(q, i) ==
    Len(FilterLoop(1, i, calls[q].new_alerts, <<(<<>>), calls[q].before>>,
                   calls[q].at, CooldownMinutes)[1]) = Len(FoundBy(q, i)[1])

C30_SuppressedOnlyByFreshSameKey ==
    \A q \in 1..Len(calls) :
        /\ \A i \in 1..Len(calls[q].new_alerts) :
              SuppressedAt(q, i)
              => \E j \in 1..Len(FoundBy(q, i)[2]) :
                    LET entry == FoundBy(q, i)[2][j]
                    IN  /\ entry.symbol = calls[q].new_alerts[i].symbol
                        /\ entry.type = calls[q].new_alerts[i].type
                        /\ calls[q].at - entry.timestamp < CooldownMinutes
        /\ Len(calls[q].before) + Len(calls[q].new_alerts) <= HistoryKeep
           => SubSeq(HistoryAfter(q), 1, Len(calls[q].before)) = calls[q].before

\* a call admits a candidate although alert_history holds an entry of its key
\* past the cooldown and a fresh entry of its symbol with the other type; the
\* entry past the cooldown stays in alert_history
C30_Witness ==
    \E q \in 1..Len(calls) :
    \E i \in 1..Len(calls[q].new_alerts) :
        LET alert == calls[q].new_alerts[i] IN
        /\ ~SuppressedAt(q, i)
        /\ \E j \in 1..Len(calls[q].before) :
              /\ Key(calls[q].before[j]) = Key(alert)
              /\ calls[q].at - calls[q].before[j].timestamp >= CooldownMinutes
              /\ HistoryAfter(q)[j] = calls[q].before[j]
        /\ \E j \in 1..Len(calls[q].before) :
              /\ calls[q].before[j].symbol = alert.symbol
              /\ calls[q].before[j].type # alert.type
              /\ calls[q].at - calls[q].before[j].timestamp < CooldownMinutes

----------------------------------------------------------------------------
\* Approaching and hit alerts of the monitoring ticks of one symbol

IsApproachingStop(alert) == alert.message = "APPROACHING STOP LOSS"
IsApproachingTarget(alert) == alert.message = "APPROACHING TARGET"
IsStopHit(alert) == alert.type = STOP_LOSS /\ alert.priority = "CRITICAL"
IsTargetHit(alert) == alert.type = TARGET_HIT /\ alert.priority = "HIGH"

----------------------------------------------------------------------------
\* Technical alerts of one monitoring tick

IsTechnical(alert) == alert.type \in {TECHNICAL_BUY, TECHNICAL_SELL}

\* the place of a rule group in the evaluation order
IndicatorRank(alert) ==
    CASE alert.indicator = "RSI" -> 1
      [] alert.indicator = "MACD" -> 2
      [] alert.indicator = "Bollinger Bands" -> 3
      [] alert.indicator = "EMA Cross" -> 4

\* the positions of the technical alerts of a batch that carry key k
TechnicalWithKey(batch, k) == {i \in WithKey(batch, k) : IsTechnical(batch[i])}

----------------------------------------------------------------------------
\* The order in which send_bulk_alerts passes messages to send_alert

\* the alerts of a batch with a priority other than CRITICAL and HIGH
OtherThanCriticalAndHigh(batch) ==
    SelectSeq(batch, LAMBDA a : a.priority \notin {"CRITICAL", "HIGH"})

\* the individual messages of a batch: the CRITICAL alerts, then the HIGH
\* ones, each group in input order
Individually(batch) ==
    LET singles == SelectSeq(batch, LAMBDA a : a.priority = "CRITICAL")
                   \o SelectSeq(batch, LAMBDA a : a.priority = "HIGH")
    IN  [i \in 1..Len(singles) |-> format_alert_message(singles[i])]

\* a summary covers exactly the alerts of rest: it counts them and has one
\* line per alert, in order
Covers(message, rest) ==
    LET lines == SelectSeq(message.text, LAMBDA l : l.kind = "line")
    IN  /\ message.text[1] = [kind |-> "summary", count |-> Len(rest)]
        /\ Len(lines) = Len(rest)
        /\ \A i \in 1..Len(rest) :
              /\ lines[i].symbol = rest[i].symbol
              /\ lines[i].text = Titled(rest[i].type)

\* C26: every alert of a batch is in exactly one of the groups CRITICAL, HIGH,
\* other; the CRITICAL alerts are sent as individual messages before the HIGH
\* ones, the HIGH ones before the summary, each group in input order, and at
\* most one summary is sent per batch, covering exactly the alerts that are
\* neither CRITICAL nor HIGH.
C26_RankedByPriority ==
    \A t \in Ticks :
        LET batch == ticks[t].handed
            singles == Individually(batch)
            rest == OtherThanCriticalAndHigh(batch)
            box == ticks[t].outbox
        IN  ticks[t].pc \in {"sending", "done"}
            => /\ Len(singles) + Len(rest) = Len(batch)
               /\ ticks[t].pc = "sending"
                  => /\ ticks[t].other_alerts = rest
                     /\ Len(box) + Len(ticks[t].pending) = Len(singles)
               /\ (ticks[t].pc = "done" /\ chat_id) => Len(box) >= Len(singles)
               /\ \A i \in 1..Len(box) :
                     IF i <= Len(singles)
                     THEN box[i] = singles[i]
                     ELSE /\ i = Len(singles) + 1
                          /\ ticks[t].pc = "done"
                          /\ box[i].kind = "summary"
                          /\ rest # <<>>
                          /\ Covers(box[i], rest)

\* a batch with MEDIUM alerts ahead of a HIGH and a CRITICAL one: the messages
\* went out as CRITICAL, HIGH, summary
C26_Witness ==
    \E t \in Ticks :
        LET batch == ticks[t].handed
            box == ticks[t].outbox
        IN  /\ ticks[t].pc = "done"
            /\ Len(batch) >= 3
            /\ batch[1].priority = "MEDIUM"
            /\ batch[2].priority = "HIGH"
            /\ batch[3].priority = "CRITICAL"
            /\ Len(box) = 3
            /\ box[1].kind = "alert" /\ box[1].priority = "CRITICAL"
            /\ box[2].kind = "alert" /\ box[2].priority = "HIGH"
            /\ box[3].kind = "summary"

----------------------------------------------------------------------------
\* The position store under /add_stock and /remove_stock

\* a request add_stock_command must turn down: no symbol, a missing or
\* malformed parameter, a symbol validate_symbol rejects, a target on or below
\* the buy price, a stop loss on or above it
TurnedDown(request) ==
    \/ ~request.has_args
    \/ \E p \in {request.buy, request.target, request.stop} : p.tag # "number"
    \/ ~request.valid
    \/ request.target.value <= request.buy.value
    \/ request.stop.value >= request.buy.value

Rejections ==
    {"Usage", "Missing parameters!", "Invalid price format!", "Invalid stock symbol",
     "Target price must be higher than buy price",
     "Stop loss must be lower than buy price"}

\* C21: every record of the store has targetPrice > buyPrice and stopLoss <
\* buyPrice; an /add_stock request with target <= buy or stop >= buy, with a
\* missing buy, target or stop parameter, or with an invalid symbol is answered
\* with a rejection and leaves the store as it was; any other request appends
\* at most the one row it asked for.
C21_AddStockValidates ==
    [][reply'.command = "add_stock"
       => /\ \A i \in 1..Len(worksheet') :
                /\ worksheet'[i].Target_Price > worksheet'[i].Buy_Price
                /\ worksheet'[i].Stop_Loss < worksheet'[i].Buy_Price
          /\ TurnedDown(reply'.request)
             => /\ reply'.kind \in Rejections
                /\ worksheet' = worksheet
          /\ ~TurnedDown(reply'.request)
             => \/ worksheet' = worksheet /\ reply'.kind = "Failed to add"
                \/ /\ Len(worksheet') = Len(worksheet) + 1
                   /\ reply'.kind \in {"Added", "Error adding stock"}
                   /\ LET row == worksheet'[Len(worksheet')]
                      IN  /\ row.Stock_Symbol = Upper(reply'.request.symbol)
                          /\ row.Buy_Price = reply'.request.buy.value
                          /\ row.Target_Price = reply'.request.target.value
                          /\ row.Stop_Loss = reply'.request.stop.value]_vars

\* with a position in the store, a request whose target equals its buy price
\* was turned down
C21_Witness ==
    /\ reply.command = "add_stock"
    /\ reply.request.valid
    /\ reply.request.target = reply.request.buy
    /\ reply.request.stop.value < reply.request.buy.value
    /\ reply.kind = "Target price must be higher than buy price"
    /\ Len(worksheet) = 1

\* C22: the symbol is a unique key of the store: it holds at most one record
\* per upper-case symbol, so that once remove_stock(S) has returned True,
\* get_stock_by_symbol(S) returns None.
C22_SymbolIsUniqueKey ==
    /\ \A i, j \in 1..Len(worksheet) :
          i # j => worksheet[i].Stock_Symbol # worksheet[j].Stock_Symbol
    /\ (reply.command = "remove_stock" /\ reply.kind = "Removed")
       => get_stock_by_symbol(worksheet, reply.request.symbol, TRUE) = None

----------------------------------------------------------------------------
\* the alerts admitted so far, the newest first, at most 10, as /alerts lines
RecentlyAdmitted ==
    LET n == Len(Admitted)
        shown == IF n > 10 THEN 10 ELSE n
    IN  [i \in 1..shown |->
            [kind |-> "line", symbol |-> Admitted[n + 1 - i].symbol,
             text |-> Titled(Admitted[n + 1 - i].type)]]

\* C23: once a monitoring tick has admitted alerts through
\* filter_duplicate_alerts, alerts_command replies with the (up to 10) alerts
\* admitted last, the newest first; it replies "No recent alerts" only when no
\* alert has been admitted since start-up.
C23_AlertsShowsAdmitted ==
    [][reply'.command = "alerts"
       => IF Admitted = <<>>
          THEN reply'.kind = "No recent alerts"
          ELSE /\ reply'.kind = "Recent Alerts"
               /\ reply'.lines = RecentlyAdmitted]_vars

----------------------------------------------------------------------------
\* the keepalive job is added every 14 minutes
KeepaliveMinutes == 14

\* C27: after setup_scheduler() the scheduler holds the three jobs
\* monitor_stocks (every UPDATE_INTERVAL_MINUTES minutes), keepalive_ping
\* (every 14 minutes) and daily_summary (daily at 09:00), so that once the
\* scheduler is started a keepalive ping is eventually attempted.
C27_KeepaliveScheduled ==
    /\ [](scheduler.running
          => scheduler.jobs = {IntervalJob("monitor_stocks", UPDATE_INTERVAL_MINUTES),
                               IntervalJob("keepalive_ping", KeepaliveMinutes),
                               CronJob("daily_summary", 9, 0)})
    /\ (scheduler.running ~> scheduler.runs["keepalive_ping"] > 0)

============================================================================
